---- MODULE Spec2Model ----
(***************************************************************************)
(* A model of the enrichment pipelines of TMinusZero:                      *)
(*   scripts/agent.py                  the news pipeline                   *)
(*   scripts/hf_client.py              the launch pipeline's summarizer    *)
(*   scripts/launch_data.py            launch filtering, reuse, persisting *)
(*   scripts/upcoming_events_agent.py  the launch pipeline's driver        *)
(*                                                                         *)
(* Python values are tagged records: a missing dictionary key, None, or a  *)
(* string, which is a sequence of one-character strings.  Every await of   *)
(* the asyncio code is a step boundary: the code between two awaits runs   *)
(* atomically on the single event-loop thread and is one action.           *)
(***************************************************************************)
EXTENDS Integers, Sequences, FiniteSets, TLC

VARIABLES
    call,       \* SpecSumm: the state of one stand-alone summarize call
    posts,      \* SpecSumm: POST requests that call has sent
    sleeps,     \* SpecSumm: the backoff sleeps that call has made, in order
    hist,       \* SpecSumm: the status of every answered attempt, in order
    sem,        \* free slots of asyncio.Semaphore(MAX_CONCURRENT_REQUESTS)
    pipeline,   \* "news" (agent.py), "launch" (upcoming_events_agent.py), "none"
    hfToken,    \* whether HF_TOKEN is set in the environment
    run,        \* number of runs of main() started so far
    pc,         \* the stage of the current run of main()
    outfile,    \* the persisted snapshot: [exists, data]
    existing,   \* existing_items / existing_launches loaded at the start of the run
    items,      \* the fresh upstream list of this run
    procs,      \* news: one process_item coroutine per fresh item
    processed,  \* news: the records collected in completion order
    idx,        \* launch: the loop index of the stage in progress
    go_launches,\* launch: the list being built and enhanced
    posted,     \* ids of the records an inference POST was sent for, this run
    fetched,    \* ids of the records an article/detail GET was sent for, this run
    writes,     \* snapshot writes of this run
    retval,     \* launch: what main() returned ("none" while it runs)
    out,        \* SpecSumm: the body of the call's last answer (NoBody: not a 200)
    chunker,    \* SpecChunk: one call of chunk_text, statement by statement
    launches_data, \* the list fetch of this run (launches_data in the launch
                \* pipeline, data in the news one): "none" before it returns,
                \* "ok" when it gave a list, "failed" when it gave None or raised
    ipfs        \* SpecIpfs: ipfs_storage_manager.py, the records file and the
                \* run of upload_all_files in progress

summVars == <<call, posts, sleeps, hist, out>>
pipeVars == <<pipeline, hfToken, run, pc, outfile, existing, items, procs,
              processed, idx, go_launches, posted, fetched, writes, retval,
              launches_data>>
vars == <<call, posts, sleeps, hist, sem, pipeline, hfToken, run, pc, outfile,
          existing, items, procs, processed, idx, go_launches, posted, fetched,
          writes, retval, out, chunker, launches_data, ipfs>>

(***************************************************************************)
(* Bounds of the model.                                                    *)
(***************************************************************************)
\* the largest retries argument a stand-alone summarize call is given
MaxRetries == 3
\* timestamps (published_at, net) range over 1..MaxTime
MaxTime == 2
\* the capacity of the gate, MAX_CONC in the environment (agent.py:26)
MAX_CONCURRENT_REQUESTS == 2

(***************************************************************************)
(* Program constants.  CHUNK_SIZE and TARGET_SUMMARY_WORDS are read from   *)
(* the environment (agent.py:28-29); the model runs the configuration      *)
(* CHUNK_SIZE=5, TARGET_WORDS=4 so that short texts exercise chunking,     *)
(* condensation and the word-count check.                                  *)
(***************************************************************************)
CHUNK_SIZE == 5
TARGET_SUMMARY_WORDS == 4
\* retries=3, the default of hf_summarize_chunk, which process_item relies on
AGENT_RETRIES == 3
\* retries=1, the default of call_hf_api, which generate_summary relies on
HF_CLIENT_RETRIES == 1
\* backoff = 2
BACKOFF == 2

(***************************************************************************)
(* Python values.                                                          *)
(***************************************************************************)
Missing == [tag |-> "missing", s |-> <<>>]
PyNone == [tag |-> "none", s |-> <<>>]
Str(x) == [tag |-> "str", s |-> x]
EmptyStr == Str(<<>>)

IsStr(v) == v.tag = "str"
\* bool(v) for a value that is missing (read with .get: None), None or a string
Truthy(v) == v.tag = "str" /\ v.s # <<>>
\* a or b
PyOr(a, b) == IF Truthy(a) THEN a ELSE b
\* d.get(key, default), v being d's entry for key
Get(v, default) == IF v.tag = "missing" THEN default ELSE v

(***************************************************************************)
(* The inference backend's answers.  An outcome is a transport exception   *)
(* (a timeout included) or an HTTP status with, on 200, a JSON body.       *)
(***************************************************************************)
SA == <<"A", ".">>
SB == <<"B", ".">>
SCD == <<"C", " ", "D">>

Fields ==
    { <<Str(SA), Str(SB)>>, <<Missing, Str(SB)>>, <<EmptyStr, Str(SB)>>,
      <<Missing, Missing>> }

Body(shape, st, gt, text) ==
    [shape |-> shape, summary_text |-> st, generated_text |-> gt, text |-> text]

NoBody == Body("none", Missing, Missing, <<>>)

\* "listdict": [ {..}, .. ]   "dict": {..}   "str": a bare string
\* "emptylist": []   "listother": [1]   "number": 1   "null": null
\* "invalid": resp.json() raises (not JSON, or not application/json)
Bodies ==
    { Body(sh, f[1], f[2], <<>>) : sh \in {"listdict", "dict"}, f \in Fields }
    \cup { Body("str", Missing, Missing, t) : t \in {<<>>, SCD} }
    \cup { Body(sh, Missing, Missing, <<>>) :
             sh \in {"emptylist", "listother", "number", "null", "invalid"} }

\* a plausible slip: 404 taken for a retryable status
RetryableWith404 == {429, 503, 502, 500, 404}
RetryableStatuses == {429, 503, 502, 500}
ErrorStatuses == RetryableStatuses \cup {404, 401}

Outcome(kind, status, body) == [kind |-> kind, status |-> status, body |-> body]

Outcomes ==
    { Outcome("exc", 0, NoBody) }
    \cup { Outcome("resp", s, NoBody) : s \in ErrorStatuses }
    \cup { Outcome("resp", 200, b) : b \in Bodies }

\* the answers the backend gives inside a pipeline run: one of each kind
BackendAnswers ==
    { Outcome("exc", 0, NoBody), Outcome("resp", 503, NoBody),
      Outcome("resp", 404, NoBody),
      Outcome("resp", 200, Body("listdict", Str(SA), Str(SB), <<>>)),
      Outcome("resp", 200, Body("str", Missing, Missing, SCD)),
      Outcome("resp", 200, Body("dict", Missing, Missing, <<>>)),
      Outcome("resp", 200, Body("emptylist", Missing, Missing, <<>>)),
      Outcome("resp", 200, Body("invalid", Missing, Missing, <<>>)) }

(***************************************************************************)
(* hf_client.extract_summary_from_response                                 *)
(***************************************************************************)
extract_summary_from_response(b) ==
    IF b.shape \in {"listdict", "dict"}
    THEN PyOr(PyOr(b.summary_text, b.generated_text), EmptyStr)
    ELSE IF b.shape = "str" THEN Str(b.text)
    ELSE EmptyStr

(***************************************************************************)
(* One attempt of a summarize call, from the answer to what the loop does  *)
(* next: "return" val, "sleep" wait seconds and go to the next attempt, or *)
(* "next": go to the next attempt at once.                                 *)
(***************************************************************************)
Return(v) == [act |-> "return", val |-> v, wait |-> 0]
\* a plausible slip: a constant delay instead of backoff ** attempt
BackoffConstant(attempt) == [act |-> "sleep", val |-> PyNone, wait |-> BACKOFF]
Backoff(attempt) == [act |-> "sleep", val |-> PyNone, wait |-> BACKOFF ^ attempt]
FallThrough == [act |-> "next", val |-> PyNone, wait |-> 0]

\* a plausible slip: an exception ends the call at once
OnExceptionGivesUp(attempt, retries) == Return(EmptyStr)
\* the except clause both clients share
OnException(attempt, retries) ==
    IF attempt < retries THEN Backoff(attempt) ELSE Return(EmptyStr)

\* agent.py: the bodies the three isinstance tests of a 200 answer return on
AgentRecognised(b) == b.shape \in {"listdict", "dict", "str"}

\* agent.hf_summarize_chunk, one iteration of "for attempt in range(1, retries + 1)"
hf_summarize_chunk_attempt(attempt, retries, o) ==
    IF o.kind = "exc" THEN OnException(attempt, retries)
    ELSE IF o.status = 200
    THEN IF o.body.shape = "invalid" THEN OnException(attempt, retries)
         ELSE IF AgentRecognised(o.body)
         THEN Return(extract_summary_from_response(o.body))
         \* no isinstance test matched: the with blocks end without a return
         ELSE IF attempt < retries THEN FallThrough ELSE Return(PyNone)
    ELSE IF o.status \in RetryableStatuses THEN OnException(attempt, retries)
    ELSE Return(EmptyStr)

\* hf_client.call_hf_api, one iteration of its loop
call_hf_api_attempt(attempt, retries, o) ==
    IF o.kind = "exc" THEN OnException(attempt, retries)
    ELSE IF o.status = 200
    THEN IF o.body.shape = "invalid" THEN OnException(attempt, retries)
         ELSE Return(extract_summary_from_response(o.body))
    ELSE IF o.status \in RetryableStatuses /\ attempt < retries
    THEN OnException(attempt, retries)
    ELSE Return(EmptyStr)

Attempt(client, attempt, retries, o) ==
    IF client = "agent" THEN hf_summarize_chunk_attempt(attempt, retries, o)
    ELSE call_hf_api_attempt(attempt, retries, o)

(***************************************************************************)
(* A summarize call as a coroutine: "ready" to send attempt `attempt`      *)
(* (agent.py: to enter the gate first), "inflight" while its POST is out,  *)
(* "sleep" in asyncio.sleep(backoff ** attempt), "done" with its result.   *)
(***************************************************************************)
NewCall(client, retries) ==
    [client |-> client, retries |-> retries, attempt |-> 1,
     pc |-> "ready", result |-> PyNone]

NoCall == [client |-> "none", retries |-> 0, attempt |-> 0,
           pc |-> "idle", result |-> PyNone]

\* agent.py wraps the POST in "async with semaphore"; hf_client.py has no gate
UsesGate(c) == c.client = "agent"

\* a plausible slip: the POST sent outside "async with semaphore"
CanPostUngated(c, free) == c.pc = "ready"
CanPost(c, free) == c.pc = "ready" /\ (UsesGate(c) => free > 0)
SemAfterPost(c, free) == IF UsesGate(c) THEN free - 1 ELSE free
\* a plausible slip: the slot kept after the answer
SemKeptAfterAnswer(c, free) == free
SemAfterAnswer(c, free) == IF UsesGate(c) THEN free + 1 ELSE free

PostSent(c) == [c EXCEPT !.pc = "inflight"]

Answered(c, o) ==
    LET r == Attempt(c.client, c.attempt, c.retries, o)
    IN  IF r.act = "return" THEN [c EXCEPT !.pc = "done", !.result = r.val]
        ELSE IF r.act = "sleep" THEN [c EXCEPT !.pc = "sleep"]
        ELSE [c EXCEPT !.pc = "ready", !.attempt = c.attempt + 1]

Woken(c) == [c EXCEPT !.pc = "ready", !.attempt = c.attempt + 1]

\* out = await resp.json(), the 200 answers only
Parsed(o) == IF o.kind = "resp" /\ o.status = 200 THEN o.body ELSE NoBody

(***************************************************************************)
(* ipfs_storage_manager.py: the records file public/ipfs_records.json.     *)
(***************************************************************************)
\* the files upload_all_files uploads, in the order of files_to_upload
FileTypes == <<"space_news", "upcoming_events">>
\* a key that latest_cids does not hold; an upload that returned None
NoCid == 0
NoCids == [t \in {FileTypes[1], FileTypes[2]} |-> NoCid]

\* load_records when the file does not exist (lines 247-257)
NewRecords ==
    [records |-> <<>>, latest_cids |-> NoCids,
     stats |-> [total_uploads |-> 0, space_news_uploads |-> 0,
                upcoming_events_uploads |-> 0],
     ipns_info |-> NoCid]

\* no run of upload_all_files was made and there is no records file
NoIpfs ==
    [pc |-> "idle", disk |-> NewRecords, records |-> NewRecords,
     latest_cids |-> NoCids, i |-> 0, upload_results |-> 0,
     last |-> NoCids, retval |-> "none"]

\* no call of chunk_text is being followed
NoChunker ==
    [pc |-> "idle", input |-> <<>>, text |-> <<>>, chunk_size_chars |-> 0,
     start |-> 0, chunks |-> <<>>, cuts |-> <<>>]

(***************************************************************************)
(* SpecSumm: one summarize call of either client, with any retries in      *)
(* 1..MaxRetries, against a backend that answers each attempt with any     *)
(* outcome.                                                                *)
(***************************************************************************)
IdlePipeline ==
    /\ pipeline = "none" /\ hfToken = TRUE /\ run = 0 /\ pc = "idle"
    /\ outfile = [exists |-> FALSE, data |-> <<>>]
    /\ existing = <<>> /\ items = <<>> /\ procs = <<>> /\ processed = <<>>
    /\ idx = 0 /\ go_launches = <<>> /\ posted = {} /\ fetched = {}
    /\ writes = 0 /\ retval = "none" /\ launches_data = "none"
    /\ ipfs = NoIpfs

\* no stand-alone summarize call is being followed
IdleCall ==
    /\ call = NoCall /\ posts = 0 /\ sleeps = <<>> /\ hist = <<>> /\ out = NoBody

InitSumm ==
    /\ \E client \in {"agent", "hf_client"}, retries \in 1..MaxRetries :
          call = NewCall(client, retries)
    /\ posts = 0 /\ sleeps = <<>> /\ hist = <<>> /\ out = NoBody
    /\ sem = MAX_CONCURRENT_REQUESTS
    /\ IdlePipeline
    /\ chunker = NoChunker

SummPost ==
    /\ CanPost(call, sem)
    /\ call' = PostSent(call)
    /\ sem' = SemAfterPost(call, sem)
    /\ posts' = posts + 1
    /\ UNCHANGED <<sleeps, hist, out>>
    /\ UNCHANGED pipeVars
    /\ UNCHANGED <<chunker, ipfs>>

SummAnswer ==
    /\ call.pc = "inflight"
    /\ \E o \in Outcomes :
          LET r == Attempt(call.client, call.attempt, call.retries, o)
          IN  /\ call' = Answered(call, o)
              /\ hist' = Append(hist, o.status)
              /\ out' = Parsed(o)
              /\ sleeps' = IF r.act = "sleep" THEN Append(sleeps, r.wait) ELSE sleeps
    /\ sem' = SemAfterAnswer(call, sem)
    /\ UNCHANGED posts
    /\ UNCHANGED pipeVars
    /\ UNCHANGED <<chunker, ipfs>>

SummWake ==
    /\ call.pc = "sleep"
    /\ call' = Woken(call)
    /\ UNCHANGED <<posts, sleeps, hist, out, sem>>
    /\ UNCHANGED pipeVars
    /\ UNCHANGED <<chunker, ipfs>>

NextSumm == SummPost \/ SummAnswer \/ SummWake

SpecSumm == InitSumm /\ [][NextSumm]_vars

(***************************************************************************)
(* Strings.                                                                *)
(***************************************************************************)
Min(a, b) == IF a < b THEN a ELSE b

\* a plausible slip: the left end not trimmed
lstrip_nothing(t) == t
RECURSIVE lstrip(_)
lstrip(t) == IF t # <<>> /\ Head(t) = " " THEN lstrip(Tail(t)) ELSE t

RECURSIVE rstrip(_)
rstrip(t) ==
    IF t # <<>> /\ t[Len(t)] = " " THEN rstrip(SubSeq(t, 1, Len(t) - 1)) ELSE t

\* a plausible slip: only the right end trimmed
strip_right_only(t) == rstrip(t)
\* str.strip(): the only whitespace of the model's alphabet is the space
strip(t) == rstrip(lstrip(t))

\* slice_.rfind('. '): the 0-based index of the last ". " of t, or -1
rfind_period(t) ==
    LET hits == { i \in 1..(Len(t) - 1) : t[i] = "." /\ t[i + 1] = " " }
    IN  IF hits = {} THEN -1
        ELSE (CHOOSE i \in hits : \A j \in hits : j <= i) - 1

\* " ".join(parts)
RECURSIVE join(_)
join(parts) ==
    IF parts = <<>> THEN <<>>
    ELSE IF Len(parts) = 1 THEN parts[1]
    ELSE parts[1] \o <<" ">> \o join(Tail(parts))

\* len(t.split()): the number of maximal runs of non-space characters
word_count(t) ==
    Cardinality({ i \in 1..Len(t) : t[i] # " " /\ (i = 1 \/ t[i - 1] = " ") })

(***************************************************************************)
(* agent.chunk_text                                                        *)
(***************************************************************************)
\* a slice bound as Python reads it: a negative one counts from the end, and
\* both ends are clamped to 0..L
py_index(i, L) ==
    IF i < 0 THEN (IF i + L < 0 THEN 0 ELSE i + L)
    ELSE (IF i > L THEN L ELSE i)

\* t[a:b]
slice(t, a, b) ==
    LET lo == py_index(a, Len(t))
        hi == py_index(b, Len(t))
    IN  IF lo < hi THEN SubSeq(t, lo + 1, hi) ELSE <<>>

\* int(n * 0.5): int() truncates toward zero
half(n) == IF n >= 0 THEN n \div 2 ELSE 0 - ((0 - n) \div 2)

\* a plausible slip: the cut placed before the period, not after it
cut_before_period(text, chunk_size_chars, start) ==
    LET L == Len(text)
        end0 == Min(start + chunk_size_chars, L)
        last_period == rfind_period(slice(text, start, end0))
    IN  IF end0 < L /\ last_period # -1 /\ last_period > half(chunk_size_chars)
        THEN start + last_period
        ELSE end0
\* lines 68-73: the end of the chunk that begins at start
cut_end(text, chunk_size_chars, start) ==
    LET L == Len(text)
        end0 == Min(start + chunk_size_chars, L)
        last_period == rfind_period(slice(text, start, end0))
    IN  IF end0 < L /\ last_period # -1 /\ last_period > half(chunk_size_chars)
        THEN start + last_period + 1
        ELSE end0

\* the while loop, for the chunk sizes it ends with (chunk_size_chars >= 1)
RECURSIVE chunk_loop(_, _, _, _)
chunk_loop(text, chunk_size_chars, start, chunks) ==
    LET end == cut_end(text, chunk_size_chars, start)
    IN  IF ~(start < Len(text)) THEN chunks
        ELSE chunk_loop(text, chunk_size_chars, end,
                        Append(chunks, strip(slice(text, start, end))))

chunk_text(text, chunk_size_chars) ==
    LET t == strip(text)
    IN  IF Len(t) <= chunk_size_chars THEN <<t>>
        ELSE chunk_loop(t, chunk_size_chars, 0, <<>>)

(***************************************************************************)
(* SpecChunk: one call of chunk_text followed statement by statement, for  *)
(* every text of at most MaxTextLen characters over the alphabet and every *)
(* chunk size from -1 to MaxChunkSize (CHUNK_SIZE is any integer the       *)
(* environment holds, agent.py:28).                                        *)
(*   "call"  at line 61     "loop"  at the while test, line 67             *)
(*   "done"  returned                                                      *)
(* cuts records the value of end of every iteration.                       *)
(***************************************************************************)
MaxTextLen == 6
MaxChunkSize == 5
\* iterations followed before the model stops following a call
MaxChunks == 7

Alphabet == {"a", ".", " "}
Texts == UNION { [1..n -> Alphabet] : n \in 0..MaxTextLen }
ChunkSizes == (0 - 1)..MaxChunkSize

InitChunk ==
    /\ \E t \in Texts, n \in ChunkSizes :
          chunker = [pc |-> "call", input |-> t, text |-> t,
                     chunk_size_chars |-> n, start |-> 0, chunks |-> <<>>,
                     cuts |-> <<>>]
    /\ IdleCall
    /\ IdlePipeline
    /\ sem = MAX_CONCURRENT_REQUESTS

\* lines 61-66: strip, the one-chunk return, or the loop's set-up
ChunkEnter ==
    /\ chunker.pc = "call"
    /\ LET t == strip(chunker.input)
       IN  chunker' =
             IF Len(t) <= chunker.chunk_size_chars
             THEN [chunker EXCEPT !.pc = "done", !.text = t, !.chunks = <<t>>]
             ELSE [chunker EXCEPT !.pc = "loop", !.text = t]
    /\ UNCHANGED <<sem>>
    /\ UNCHANGED summVars
    /\ UNCHANGED pipeVars
    /\ UNCHANGED ipfs

\* lines 67-75: one iteration of "while start < L"
ChunkIterate ==
    /\ chunker.pc = "loop"
    /\ chunker.start < Len(chunker.text)
    /\ Len(chunker.chunks) < MaxChunks
    /\ LET end == cut_end(chunker.text, chunker.chunk_size_chars, chunker.start)
       IN  chunker' =
             [chunker EXCEPT
                !.chunks = Append(@, strip(slice(chunker.text, chunker.start, end))),
                !.cuts = Append(@, end),
                !.start = end]
    /\ UNCHANGED <<sem>>
    /\ UNCHANGED summVars
    /\ UNCHANGED pipeVars
    /\ UNCHANGED ipfs

\* line 76: the loop test failed
ChunkReturn ==
    /\ chunker.pc = "loop"
    /\ ~(chunker.start < Len(chunker.text))
    /\ chunker' = [chunker EXCEPT !.pc = "done"]
    /\ UNCHANGED <<sem>>
    /\ UNCHANGED summVars
    /\ UNCHANGED pipeVars
    /\ UNCHANGED ipfs

NextChunk == ChunkEnter \/ ChunkIterate \/ ChunkReturn

SpecChunk == InitChunk /\ [][NextChunk]_vars

(***************************************************************************)
(* The news pipeline's upstream: the list API and the article pages.       *)
(***************************************************************************)
URL == <<"u">>
SUMMARY == <<"S">>
\* an article longer than CHUNK_SIZE (two chunks, cut after its first sentence)
LongText == <<"a", "a", "a", ".", " ", "b", "b">>
\* an article of one chunk
ShortText == <<"c", "c">>

NewsIds == {1, 2}

\* the answer to the GET of an article's url: its HTTP status and the text
\* of its <p> elements (or of its meta description); status 0: the GET raised
Page(status, text) == [status |-> status, text |-> text, parses |-> TRUE]
PageRaised == Page(0, <<>>)
\* a page on which BeautifulSoup(html, "html.parser") raises (markup the
\* parser rejects), outside the try of fetch_text
PageRejected == [status |-> 200, text |-> <<>>, parses |-> FALSE]

\* agent.fetch_text: "" when the GET raised, else the page's text, whatever
\* the status of the answer
fetch_text(page) == IF page.status = 0 THEN <<>> ELSE page.text

\* the answers to the GET of an item's url: the GET raised, the article, or
\* a page the parser rejects
Pages(id) ==
    IF id = 1 THEN {PageRaised, Page(200, LongText), PageRejected}
    ELSE {PageRaised, Page(200, ShortText), PageRejected}

\* a record of the list API; the upstream stamps an article's updated_at
\* with the time of its last edit, here the timestamp it is listed with
NewsItem(id, t, url, summary) ==
    [id |-> id, published_at |-> t, updated_at |-> t, url |-> url,
     summary |-> summary, detailed_news |-> Missing]

\* the upstream's record of an article: article 1 has a summary field,
\* article 2 has none; either may lack its url; any timestamp
SummaryOf(id) == IF id = 1 THEN Str(SUMMARY) ELSE Missing

UpstreamNews ==
    { NewsItem(id, t, url, SummaryOf(id)) :
        id \in NewsIds, t \in 1..MaxTime, url \in {Missing, Str(URL)} }

\* the "results" array of one answer of the list API: distinct ids
FreshNewsLists ==
    { <<>> } \cup { <<a>> : a \in UpstreamNews }
    \cup { l \in { <<a, b>> : a \in UpstreamNews, b \in UpstreamNews } :
               l[1].id # l[2].id }

(***************************************************************************)
(* agent.process_item as a coroutine.                                      *)
(*   "init"      created by main, not yet started                          *)
(*   "fetch"     awaiting fetch_text                                       *)
(*   "gather"    awaiting asyncio.gather of the chunk calls                *)
(*   "condense"  awaiting the condensation call                            *)
(*   "done"      returned item                                             *)
(*   "raised"    left by an exception                                      *)
(* path records the way it took: "no_url" (line 114), "no_text" (line 118) *)
(* or "summarized" (line 136); status is the HTTP status of its article's  *)
(* page (0: none); finished lists the chunk calls of line 122 in the order *)
(* they returned; chunk_summaries and combined are kept as lines 123 and   *)
(* 125 computed them, and condensed lists what the condensation calls of   *)
(* line 128 returned.                                                      *)
(***************************************************************************)
NewProc(item) ==
    [pc |-> "init", item |-> item, status |-> 0, calls |-> <<>>,
     finished |-> <<>>, chunk_summaries |-> <<>>, combined |-> <<>>,
     condensed |-> <<>>, path |-> "none"]

\* item["detailed_news"] = item.get("summary", "")
Fallback(item) == [item EXCEPT !.detailed_news = Get(item.summary, EmptyStr)]

\* a plausible slip: the empty summaries joined with the others
all_strings(results) == [j \in 1..Len(results) |-> results[j].s]

\* " ".join([s for s in chunk_summaries if s])
RECURSIVE truthy_strings(_)
truthy_strings(results) ==
    IF results = <<>> THEN <<>>
    ELSE IF Truthy(Head(results))
         THEN <<Head(results).s>> \o truthy_strings(Tail(results))
         ELSE truthy_strings(Tail(results))

\* what asyncio.gather returns: the calls' results in the order of the calls
Results(calls) == [j \in 1..Len(calls) |-> calls[j].result]

Combined(calls) == join(truthy_strings(Results(calls)))

\* a plausible slip: lines 132-134 left out
final_summary_unchecked(combined, condensed) ==
    IF Truthy(condensed) THEN condensed.s ELSE combined

\* lines 126-134: the final summary from the combined one and the result of
\* the condensation call (None when no condensation call was made)
final_summary(combined, condensed) ==
    LET chosen == IF Truthy(condensed) THEN condensed.s ELSE combined
    IN  IF 2 * word_count(chosen) < TARGET_SUMMARY_WORDS
        THEN (IF combined # <<>> THEN combined ELSE chosen)
        ELSE chosen

Finished(p, combined, text) ==
    [p EXCEPT !.pc = "done", !.item = [p.item EXCEPT !.detailed_news = Str(text)],
              !.calls = <<>>, !.combined = combined, !.path = "summarized"]

\* a plausible slip: the "if not url" test left out
StartedWithoutUrlTest(p) == [p EXCEPT !.pc = "fetch"]
\* process_item from its start to its first await
Started(p) ==
    IF ~Truthy(p.item.url)
    THEN [p EXCEPT !.pc = "done", !.item = Fallback(p.item), !.path = "no_url"]
    ELSE [p EXCEPT !.pc = "fetch"]

\* process_item from the return of fetch_text to its next await
Fetched(p, text) ==
    IF text = <<>>
    THEN [p EXCEPT !.pc = "done", !.item = Fallback(p.item), !.path = "no_text"]
    ELSE [p EXCEPT !.pc = "gather",
                   !.calls = [j \in 1..Len(chunk_text(text, CHUNK_SIZE)) |->
                                NewCall("agent", AGENT_RETRIES)]]

\* a plausible slip: the first result awaited instead of all of them
AnyDone(calls) == \E j \in 1..Len(calls) : calls[j].pc = "done"
\* await asyncio.gather(*tasks) returns when every call has
AllDone(calls) == \A j \in 1..Len(calls) : calls[j].pc = "done"

\* process_item resumed by the completion of the calls it awaits
Resumed(p) ==
    IF ~AllDone(p.calls) THEN p
    ELSE IF p.pc = "gather"
    THEN LET combined == Combined(p.calls)
             q == [p EXCEPT !.chunk_summaries = Results(p.calls)]
         IN  IF Len(combined) > CHUNK_SIZE
             THEN [q EXCEPT !.pc = "condense", !.combined = combined,
                            !.calls = <<NewCall("agent", AGENT_RETRIES)>>]
             ELSE Finished(q, combined, final_summary(combined, PyNone))
    ELSE Finished([p EXCEPT !.condensed = Append(@, p.calls[1].result)],
                  p.combined, final_summary(p.combined, p.calls[1].result))

(***************************************************************************)
(* agent.main                                                              *)
(***************************************************************************)
\* existing_items = {item["id"]: item for item in old_data}
HasId(data, id) == \E k \in 1..Len(data) : data[k].id = id
Lookup(data, id) ==
    data[CHOOSE k \in 1..Len(data) :
            data[k].id = id /\ \A m \in (k + 1)..Len(data) : data[m].id # id]

\* old_item and old_item.get("id") == item.get("id")
NewsReusable(item, prior) == HasId(prior, item.id)

\* sorted(processed, key=lambda x: x.get(key, ""), reverse=True): stable, so
\* records of equal key keep their order
RECURSIVE insert_desc(_, _, _)
insert_desc(sorted, x, key) ==
    IF sorted = <<>> THEN <<x>>
    ELSE IF Head(sorted)[key] >= x[key]
         THEN <<Head(sorted)>> \o insert_desc(Tail(sorted), x, key)
         ELSE <<x>> \o sorted

\* a plausible slip: the collected records written in completion order
unsorted(seq, key) == seq
RECURSIVE sorted_desc(_, _)
sorted_desc(seq, key) ==
    IF seq = <<>> THEN <<>>
    ELSE insert_desc(sorted_desc(SubSeq(seq, 1, Len(seq) - 1), key),
                     seq[Len(seq)], key)

NoFile == [exists |-> FALSE, data |-> <<>>]
File(data) == [exists |-> TRUE, data |-> data]

RunEnded == pc \in {"idle", "done", "crashed", "failed"}

\* a plausible slip: the module without its "if not HF_TOKEN" test
NewsBeginWithoutTokenTest ==
    /\ pipeline = "news" /\ RunEnded
    /\ run' = 1
    /\ pc' = "list"
    /\ existing' = outfile.data
    /\ sem' = MAX_CONCURRENT_REQUESTS
    /\ items' = <<>> /\ procs' = <<>> /\ processed' = <<>>
    /\ posted' = {} /\ fetched' = {} /\ writes' = 0
    /\ UNCHANGED <<pipeline, hfToken, outfile, idx, go_launches, retval>>
    /\ UNCHANGED summVars
    /\ UNCHANGED <<chunker, ipfs>>
    /\ launches_data' = "none"

\* module import and the start of main(): HF_TOKEN, then the existing file
NewsBegin ==
    /\ pipeline = "news" /\ RunEnded
    /\ run' = 1
    /\ IF ~hfToken
       THEN /\ pc' = "aborted"
            /\ UNCHANGED <<existing, sem>>
       ELSE /\ pc' = "list"
            /\ existing' = outfile.data
            /\ sem' = MAX_CONCURRENT_REQUESTS
    /\ items' = <<>> /\ procs' = <<>> /\ processed' = <<>>
    /\ posted' = {} /\ fetched' = {} /\ writes' = 0
    /\ UNCHANGED <<pipeline, hfToken, outfile, idx, go_launches, retval>>
    /\ UNCHANGED summVars
    /\ UNCHANGED <<chunker, ipfs>>
    /\ launches_data' = "none"

\* fetch_json raises (raise_for_status, a transport error): main() dies
NewsListFail ==
    /\ pipeline = "news" /\ pc = "list"
    /\ pc' = "crashed"
    /\ UNCHANGED <<pipeline, hfToken, run, outfile, existing, items, procs,
                   processed, idx, go_launches, posted, fetched, writes, retval>>
    /\ UNCHANGED <<sem>>
    /\ UNCHANGED summVars
    /\ UNCHANGED <<chunker, ipfs>>
    /\ launches_data' = "failed"

\* lines 157-171: the task list is built; tqdm_asyncio.as_completed(tasks)
\* hands it to asyncio.as_completed, whose set(fs) raises TypeError
\* (unhashable type: 'dict') as soon as one task is a reused dict
NewsListOkFrom(lists) ==
    /\ pipeline = "news" /\ pc = "list"
    /\ \E l \in lists :
          /\ items' = l
          /\ IF \E i \in 1..Len(l) : NewsReusable(l[i], existing)
             THEN /\ pc' = "crashed"
                  /\ UNCHANGED <<procs, outfile, writes>>
             ELSE IF l = <<>>
             THEN /\ pc' = "done"
                  /\ outfile' = File(<<>>)
                  /\ writes' = writes + 1
                  /\ UNCHANGED procs
             ELSE /\ pc' = "enrich"
                  /\ procs' = [i \in 1..Len(l) |-> NewProc(l[i])]
                  /\ UNCHANGED <<outfile, writes>>
    /\ UNCHANGED <<pipeline, hfToken, run, existing, processed, idx,
                   go_launches, posted, fetched, retval>>
    /\ UNCHANGED <<sem>>
    /\ UNCHANGED summVars
    /\ UNCHANGED <<chunker, ipfs>>
    /\ launches_data' = "ok"

NewsListOk == NewsListOkFrom(FreshNewsLists)

\* a step of process_item number i leaves it in state p
ProcStep(i, p) ==
    /\ procs' = [procs EXCEPT ![i] = p]
    /\ processed' = IF p.pc = "done" THEN Append(processed, p.item) ELSE processed

ProcStart(i) ==
    /\ pipeline = "news" /\ pc = "enrich"
    /\ procs[i].pc = "init"
    /\ ProcStep(i, Started(procs[i]))
    /\ fetched' = IF Started(procs[i]).pc = "fetch"
                  THEN fetched \cup {procs[i].item.id} ELSE fetched
    /\ UNCHANGED <<pipeline, hfToken, run, pc, outfile, existing, items, idx,
                   go_launches, posted, writes, retval>>
    /\ UNCHANGED <<sem>>
    /\ UNCHANGED summVars
    /\ UNCHANGED <<chunker, ipfs>>
    /\ UNCHANGED launches_data

\* lines 116 and 171-176: an exception raised in fetch_text leaves
\* process_item, is raised again by "await t" in main's loop and leaves
\* main: no except clause is on its way
Propagated(p) == [p EXCEPT !.pc = "raised", !.path = "raised"]

\* fetch_text returns to process_item number i, or raises
ProcFetchedFrom(i, pages) ==
    /\ pipeline = "news" /\ pc = "enrich"
    /\ procs[i].pc = "fetch"
    /\ \E page \in pages :
          LET p == [procs[i] EXCEPT !.status = page.status]
          IN  IF page.parses
              THEN /\ ProcStep(i, Fetched(p, fetch_text(page)))
                   /\ pc' = pc
              ELSE /\ ProcStep(i, Propagated(p))
                   /\ pc' = "crashed"
    /\ UNCHANGED <<pipeline, hfToken, run, outfile, existing, items, idx,
                   go_launches, posted, fetched, writes, retval>>
    /\ UNCHANGED <<sem>>
    /\ UNCHANGED summVars
    /\ UNCHANGED <<chunker, ipfs>>
    /\ UNCHANGED launches_data

ProcFetched(i) == ProcFetchedFrom(i, Pages(procs[i].item.id))

\* call j of process_item i enters the gate and sends its POST
CallPost(i, j) ==
    /\ pipeline = "news" /\ pc = "enrich"
    /\ procs[i].pc \in {"gather", "condense"}
    /\ CanPost(procs[i].calls[j], sem)
    /\ sem' = SemAfterPost(procs[i].calls[j], sem)
    /\ procs' = [procs EXCEPT ![i].calls[j] = PostSent(procs[i].calls[j])]
    /\ posted' = posted \cup {procs[i].item.id}
    /\ UNCHANGED <<pipeline, hfToken, run, pc, outfile, existing, items,
                   processed, idx, go_launches, fetched, writes, retval>>
    /\ UNCHANGED summVars
    /\ UNCHANGED <<chunker, ipfs>>
    /\ UNCHANGED launches_data

\* the backend answers call j of process_item i
CallAnswerFrom(i, j, answers) ==
    /\ pipeline = "news" /\ pc = "enrich"
    /\ procs[i].pc \in {"gather", "condense"}
    /\ procs[i].calls[j].pc = "inflight"
    /\ sem' = SemAfterAnswer(procs[i].calls[j], sem)
    /\ \E o \in answers :
          LET c == Answered(procs[i].calls[j], o)
          IN  ProcStep(i, Resumed([procs[i] EXCEPT
                  !.calls[j] = c,
                  !.finished = IF procs[i].pc = "gather" /\ c.pc = "done"
                               THEN Append(@, j) ELSE @]))
    /\ UNCHANGED <<pipeline, hfToken, run, pc, outfile, existing, items, idx,
                   go_launches, posted, fetched, writes, retval>>
    /\ UNCHANGED summVars
    /\ UNCHANGED <<chunker, ipfs>>
    /\ UNCHANGED launches_data

CallAnswer(i, j) == CallAnswerFrom(i, j, BackendAnswers)

CallWake(i, j) ==
    /\ pipeline = "news" /\ pc = "enrich"
    /\ procs[i].pc \in {"gather", "condense"}
    /\ procs[i].calls[j].pc = "sleep"
    /\ procs' = [procs EXCEPT ![i].calls[j] = Woken(procs[i].calls[j])]
    /\ UNCHANGED <<pipeline, hfToken, run, pc, outfile, existing, items,
                   processed, idx, go_launches, posted, fetched, writes, retval>>
    /\ UNCHANGED <<sem>>
    /\ UNCHANGED summVars
    /\ UNCHANGED <<chunker, ipfs>>
    /\ UNCHANGED launches_data

\* a plausible slip: the file written when the first task has completed
NewsPersistEarly ==
    /\ pipeline = "news" /\ pc = "enrich"
    /\ \E i \in 1..Len(procs) : procs[i].pc = "done"
    /\ outfile' = File(sorted_desc(processed, "published_at"))
    /\ writes' = writes + 1
    /\ pc' = "done"
    /\ UNCHANGED <<pipeline, hfToken, run, existing, items, procs, processed,
                   idx, go_launches, posted, fetched, retval>>
    /\ UNCHANGED <<sem>>
    /\ UNCHANGED summVars
    /\ UNCHANGED <<chunker, ipfs>>
    /\ UNCHANGED launches_data

\* lines 178-183: every task was collected; sort and overwrite OUTFILE
NewsPersist ==
    /\ pipeline = "news" /\ pc = "enrich"
    /\ \A i \in 1..Len(procs) : procs[i].pc = "done"
    /\ outfile' = File(sorted_desc(processed, "published_at"))
    /\ writes' = writes + 1
    /\ pc' = "done"
    /\ UNCHANGED <<pipeline, hfToken, run, existing, items, procs, processed,
                   idx, go_launches, posted, fetched, retval>>
    /\ UNCHANGED <<sem>>
    /\ UNCHANGED summVars
    /\ UNCHANGED <<chunker, ipfs>>
    /\ UNCHANGED launches_data

NewsNext ==
    \/ NewsBegin
    \/ NewsListFail
    \/ NewsListOk
    \/ \E i \in 1..Len(procs) : ProcStart(i)
    \/ \E i \in 1..Len(procs) : ProcFetched(i)
    \/ \E i \in 1..Len(procs) : \E j \in 1..Len(procs[i].calls) : CallPost(i, j)
    \/ \E i \in 1..Len(procs) : \E j \in 1..Len(procs[i].calls) : CallAnswer(i, j)
    \/ \E i \in 1..Len(procs) : \E j \in 1..Len(procs[i].calls) : CallWake(i, j)
    \/ NewsPersist

InitNews ==
    /\ IdleCall
    /\ chunker = NoChunker
    /\ sem = MAX_CONCURRENT_REQUESTS
    /\ pipeline = "news" /\ hfToken \in BOOLEAN /\ run = 0 /\ pc = "idle"
    /\ outfile = NoFile
    /\ existing = <<>> /\ items = <<>> /\ procs = <<>> /\ processed = <<>>
    /\ idx = 0 /\ go_launches = <<>> /\ posted = {} /\ fetched = {}
    /\ writes = 0 /\ retval = "none" /\ launches_data = "none"
    /\ ipfs = NoIpfs

SpecNews == InitNews /\ [][NewsNext]_vars

(***************************************************************************)
(* SpecNewsFair: SpecNews with the progress the event loop gives a started *)
(* run: a task that can run is run, every GET and POST ends within         *)
(* REQUEST_TIMEOUT with an answer or an exception, asyncio.sleep ends, and *)
(* asyncio.Semaphore wakes a waiter when a slot is released. Nothing       *)
(* obliges anyone to start another run.                                    *)
(***************************************************************************)
NewsRunStep ==
    \/ NewsListFail
    \/ NewsListOk
    \/ \E i \in 1..Len(procs) : ProcStart(i)
    \/ \E i \in 1..Len(procs) : ProcFetched(i)
    \/ \E i \in 1..Len(procs) : \E j \in 1..Len(procs[i].calls) : CallPost(i, j)
    \/ \E i \in 1..Len(procs) : \E j \in 1..Len(procs[i].calls) : CallAnswer(i, j)
    \/ \E i \in 1..Len(procs) : \E j \in 1..Len(procs[i].calls) : CallWake(i, j)
    \/ NewsPersist

SpecNewsFair == InitNews /\ [][NewsNext]_vars /\ WF_vars(NewsRunStep)

(***************************************************************************)
(* One record through agent.main: a first run over a list of one item that *)
(* has a url, whose article is of three chunks and may come with any       *)
(* status, each inference call answered with a summary, an empty one, an   *)
(* error status or an unrecognised body.                                   *)
(***************************************************************************)
\* three chunks at CHUNK_SIZE 5: "aaa.", "bbb.", "cc"
RecordText ==
    <<"a", "a", "a", ".", " ", "b", "b", "b", ".", " ", "c", "c">>

RecordLists ==
    { <<NewsItem(1, 1, Str(URL), summary)>> : summary \in {Missing, Str(SUMMARY)} }

\* the GET raised, or a page with or without text, found or not found
RecordPages ==
    { PageRaised, Page(200, <<>>), Page(200, RecordText),
      Page(404, <<>>), Page(404, RecordText) }

\* summary "A.", summary "B.", a client error, a retryable status, a body
\* of an unrecognised shape
RecordAnswers ==
    { Outcome("resp", 200, Body("listdict", Str(SA), Str(SB), <<>>)),
      Outcome("resp", 200, Body("listdict", Missing, Str(SB), <<>>)),
      Outcome("resp", 404, NoBody),
      Outcome("resp", 503, NoBody),
      Outcome("resp", 200, Body("emptylist", Missing, Missing, <<>>)) }

InitRecord ==
    /\ IdleCall
    /\ chunker = NoChunker
    /\ sem = MAX_CONCURRENT_REQUESTS
    /\ pipeline = "news" /\ hfToken = TRUE /\ run = 0 /\ pc = "idle"
    /\ outfile = NoFile
    /\ existing = <<>> /\ items = <<>> /\ procs = <<>> /\ processed = <<>>
    /\ idx = 0 /\ go_launches = <<>> /\ posted = {} /\ fetched = {}
    /\ writes = 0 /\ retval = "none" /\ launches_data = "none"
    /\ ipfs = NoIpfs

RecordBegin == run = 0 /\ NewsBegin
RecordListOk == NewsListOkFrom(RecordLists)
RecordFetched(i) == ProcFetchedFrom(i, RecordPages)
RecordAnswer(i, j) == CallAnswerFrom(i, j, RecordAnswers)

RecordNext ==
    \/ RecordBegin
    \/ RecordListOk
    \/ \E i \in 1..Len(procs) : ProcStart(i)
    \/ \E i \in 1..Len(procs) : RecordFetched(i)
    \/ \E i \in 1..Len(procs) : \E j \in 1..Len(procs[i].calls) : CallPost(i, j)
    \/ \E i \in 1..Len(procs) : \E j \in 1..Len(procs[i].calls) : RecordAnswer(i, j)
    \/ \E i \in 1..Len(procs) : \E j \in 1..Len(procs[i].calls) : CallWake(i, j)
    \/ NewsPersist

SpecRecord == InitRecord /\ [][RecordNext]_vars

(***************************************************************************)
(* The launch pipeline's upstream: the list API (mode=list) and the detail *)
(* endpoint of each launch.                                                *)
(***************************************************************************)
LaunchIds == {1, 2}

ListEntry(id, status, url, net) ==
    [id |-> id, status |-> status, url |-> url, net |-> net]

\* launch 1 is always Go and has a url; launch 2 may be in another status or
\* lack its url
UpstreamLaunches ==
    { ListEntry(1, "Go", Str(URL), t) : t \in 1..MaxTime }
    \cup { ListEntry(2, st[1], st[2], t) :
             st \in {<<"Go", Str(URL)>>, <<"TBD", Str(URL)>>, <<"Go", Missing>>},
             t \in 1..MaxTime }

FreshLaunchLists ==
    { <<>> } \cup { <<a>> : a \in UpstreamLaunches }
    \cup { l \in { <<a, b>> : a \in UpstreamLaunches, b \in UpstreamLaunches } :
               l[1].id # l[2].id }

\* what fetch_launch_details returns: None (a non-200 status, an exception),
\* the launch's detail document, or a document build_launch_data chokes on
\* (its "status" is null, so .get('status', {}).get raises)
DetailAnswers ==
    { [kind |-> "none", net |-> 0] }
    \cup { [kind |-> "ok", net |-> t] : t \in 1..MaxTime }
    \cup { [kind |-> "malformed", net |-> t] : t \in 1..MaxTime }

(***************************************************************************)
(* launch_data.py                                                          *)
(***************************************************************************)
Launch(id, net, url, detailed) ==
    [id |-> id, net |-> net, url |-> url, detailed |-> detailed,
     ai_summary |-> Missing]

\* build_launch_data(source): the basic record of lines 98-137
build_basic(source) == Launch(source.id, source.net, source.url, FALSE)

\* build_launch_data(source, detailed_data), detailed_data truthy
build_detailed(source, d) == Launch(source.id, d.net, source.url, TRUE)

\* lines 184-199: the record of a launch from the detail fetch's answer
built_launch(source, d) ==
    IF d.kind = "ok" THEN build_detailed(source, d)
    \* no detail, or build_launch_data raised and the except clause rebuilt it
    ELSE build_basic(source)

\* lines 152-157: status.name == "Go" and a url
IsCandidate(launch) == launch.status = "Go" /\ Truthy(launch.url)

RECURSIVE go_launch_candidates(_)
go_launch_candidates(results) ==
    IF results = <<>> THEN <<>>
    ELSE IF IsCandidate(Head(results))
         THEN <<Head(results)>> \o go_launch_candidates(Tail(results))
         ELSE go_launch_candidates(Tail(results))

\* lines 169-171: launch_id and launch_id in existing_launches and
\* existing_launch.get('ai_summary') is not None
IdTruthy(id) == id # 0

\* a plausible slip: "if existing_launch.get('ai_summary'):", which takes an
\* empty summary for a missing one
ReusableIfTruthy(launch, prior) ==
    /\ HasId(prior, launch.id)
    /\ Truthy(Lookup(prior, launch.id).ai_summary)
Reusable(launch, prior) ==
    /\ IdTruthy(launch.id)
    /\ HasId(prior, launch.id)
    /\ Lookup(prior, launch.id).ai_summary.tag \notin {"missing", "none"}

(***************************************************************************)
(* upcoming_events_agent.py                                                *)
(***************************************************************************)
\* AILaunchSummarizer.generate_summary on the answer to its one POST:
\* call_hf_api(session, prompt, max_new_tokens=150, min_length=30), then
\* summary.strip() if summary else ""
generate_summary(o) ==
    LET r == call_hf_api_attempt(1, HF_CLIENT_RETRIES, o)
    IN  IF Truthy(r.val) THEN Str(strip(r.val.s)) ELSE EmptyStr

\* enhance_all_launches_with_ai, lines 150-155: the summary kept for a launch
kept_summary(v) == IF Truthy(v) THEN v ELSE EmptyStr

\* a plausible slip: a null ai_summary taken for a missing one
NeedsAiOrNull(launch) == launch.ai_summary.tag \in {"missing", "none"}
\* 'ai_summary' not in launch
NeedsAi(launch) == launch.ai_summary.tag = "missing"

\* a plausible slip: the launches saved as they are when the summarizer is off
without_empty_summaries(launches) == launches
\* lines 168-170 and 251-253: launch['ai_summary'] = "" where it is missing
with_empty_summaries(launches) ==
    [k \in 1..Len(launches) |->
        IF NeedsAi(launches[k])
        THEN [launches[k] EXCEPT !.ai_summary = EmptyStr] ELSE launches[k]]

Candidates == go_launch_candidates(items)

LaunchBegin ==
    /\ pipeline = "launch" /\ RunEnded
    /\ run' = 1
    /\ pc' = "list"
    /\ existing' = outfile.data
    /\ items' = <<>> /\ go_launches' = <<>> /\ idx' = 0
    /\ posted' = {} /\ fetched' = {} /\ writes' = 0 /\ retval' = "none"
    /\ UNCHANGED <<pipeline, hfToken, outfile, procs, processed>>
    /\ UNCHANGED <<sem>>
    /\ UNCHANGED summVars
    /\ UNCHANGED <<chunker, ipfs>>
    /\ launches_data' = "none"

\* the save the spec describes: the list sorted by descending net first
SavedSorted(data) ==
    /\ outfile' = File(sorted_desc(data, "net"))
    /\ writes' = writes + 1
    /\ retval' = "True"
    /\ pc' = "done"
\* save_launches_to_json(data, ...) followed by main's return True
Saved(data) ==
    /\ outfile' = File(data)
    /\ writes' = writes + 1
    /\ retval' = "True"
    /\ pc' = "done"

\* a plausible slip: an empty snapshot saved when there is nothing to fall
\* back on, as is done when no launch is Go
LaunchListFailSavesEmpty ==
    /\ pipeline = "launch" /\ pc = "list"
    /\ IF existing # <<>>
       THEN IF hfToken
            THEN /\ go_launches' = existing
                 /\ pc' = "enhance_prior"
                 /\ UNCHANGED <<outfile, writes, retval>>
            ELSE /\ go_launches' = existing
                 /\ Saved(existing)
       ELSE /\ Saved(<<>>)
            /\ UNCHANGED go_launches
    /\ UNCHANGED <<pipeline, hfToken, run, existing, items, procs, processed,
                   idx, posted, fetched>>
    /\ UNCHANGED <<sem>>
    /\ UNCHANGED summVars
    /\ UNCHANGED <<chunker, ipfs>>
    /\ launches_data' = "failed"

\* lines 214-235: fetch_upcoming_launches returned None
LaunchListFail ==
    /\ pipeline = "launch" /\ pc = "list"
    /\ IF existing # <<>>
       THEN IF hfToken
            THEN /\ go_launches' = existing
                 /\ pc' = "enhance_prior"
                 /\ UNCHANGED <<outfile, writes, retval>>
            ELSE /\ go_launches' = existing
                 /\ Saved(existing)
       ELSE /\ retval' = "False"
            /\ pc' = "failed"
            /\ UNCHANGED <<go_launches, outfile, writes>>
    /\ UNCHANGED <<pipeline, hfToken, run, existing, items, procs, processed,
                   idx, posted, fetched>>
    /\ UNCHANGED <<sem>>
    /\ UNCHANGED summVars
    /\ UNCHANGED <<chunker, ipfs>>
    /\ launches_data' = "failed"

\* the list arrived; filter_and_enhance_launches starts its loop
LaunchListOkFrom(lists) ==
    /\ pipeline = "launch" /\ pc = "list"
    /\ \E l \in lists : items' = l
    /\ pc' = "filter"
    /\ idx' = 1
    /\ go_launches' = <<>>
    /\ UNCHANGED <<pipeline, hfToken, run, outfile, existing, procs, processed,
                   posted, fetched, writes, retval>>
    /\ UNCHANGED <<sem>>
    /\ UNCHANGED summVars
    /\ UNCHANGED <<chunker, ipfs>>
    /\ launches_data' = "ok"

LaunchListOk == LaunchListOkFrom(FreshLaunchLists)

\* a plausible slip: the detail fetched before the reuse test
LaunchReuseAfterFetch ==
    /\ pipeline = "launch" /\ pc = "filter"
    /\ idx <= Len(Candidates)
    /\ Reusable(Candidates[idx], existing)
    /\ go_launches' = Append(go_launches, Lookup(existing, Candidates[idx].id))
    /\ fetched' = fetched \cup {Candidates[idx].id}
    /\ idx' = idx + 1
    /\ UNCHANGED <<pipeline, hfToken, run, pc, outfile, existing, items, procs,
                   processed, posted, writes, retval>>
    /\ UNCHANGED <<sem>>
    /\ UNCHANGED summVars
    /\ UNCHANGED <<chunker, ipfs>>
    /\ UNCHANGED launches_data

\* a plausible slip: the fresh entry's net copied into the reused record
LaunchReuseRefreshed ==
    /\ pipeline = "launch" /\ pc = "filter"
    /\ idx <= Len(Candidates)
    /\ Reusable(Candidates[idx], existing)
    /\ go_launches' = Append(go_launches,
                             [Lookup(existing, Candidates[idx].id)
                                EXCEPT !.net = Candidates[idx].net])
    /\ idx' = idx + 1
    /\ UNCHANGED <<pipeline, hfToken, run, pc, outfile, existing, items, procs,
                   processed, posted, fetched, writes, retval>>
    /\ UNCHANGED <<sem>>
    /\ UNCHANGED summVars
    /\ UNCHANGED <<chunker, ipfs>>
    /\ UNCHANGED launches_data

\* lines 169-176: candidate idx is reused from the existing file
LaunchReuse ==
    /\ pipeline = "launch" /\ pc = "filter"
    /\ idx <= Len(Candidates)
    /\ Reusable(Candidates[idx], existing)
    /\ go_launches' = Append(go_launches, Lookup(existing, Candidates[idx].id))
    /\ idx' = idx + 1
    /\ UNCHANGED <<pipeline, hfToken, run, pc, outfile, existing, items, procs,
                   processed, posted, fetched, writes, retval>>
    /\ UNCHANGED <<sem>>
    /\ UNCHANGED summVars
    /\ UNCHANGED <<chunker, ipfs>>
    /\ UNCHANGED launches_data

\* a plausible slip: no except clause around build_launch_data, the launch
\* whose detail document it chokes on being skipped
LaunchDetailWithoutExcept ==
    /\ pipeline = "launch" /\ pc = "filter"
    /\ idx <= Len(Candidates)
    /\ ~Reusable(Candidates[idx], existing)
    /\ \E d \in DetailAnswers :
          go_launches' = IF d.kind = "malformed" THEN go_launches
                         ELSE Append(go_launches, built_launch(Candidates[idx], d))
    /\ fetched' = fetched \cup {Candidates[idx].id}
    /\ idx' = idx + 1
    /\ UNCHANGED <<pipeline, hfToken, run, pc, outfile, existing, items, procs,
                   processed, posted, writes, retval>>
    /\ UNCHANGED <<sem>>
    /\ UNCHANGED summVars
    /\ UNCHANGED <<chunker, ipfs>>
    /\ UNCHANGED launches_data

\* lines 178-199: candidate idx is processed: its detail is fetched and its
\* record built
LaunchDetail ==
    /\ pipeline = "launch" /\ pc = "filter"
    /\ idx <= Len(Candidates)
    /\ ~Reusable(Candidates[idx], existing)
    /\ \E d \in DetailAnswers :
          go_launches' = Append(go_launches, built_launch(Candidates[idx], d))
    /\ fetched' = fetched \cup {Candidates[idx].id}
    /\ idx' = idx + 1
    /\ UNCHANGED <<pipeline, hfToken, run, pc, outfile, existing, items, procs,
                   processed, posted, writes, retval>>
    /\ UNCHANGED <<sem>>
    /\ UNCHANGED summVars
    /\ UNCHANGED <<chunker, ipfs>>
    /\ UNCHANGED launches_data

\* lines 240-257: filter_and_enhance_launches returned
LaunchFiltered ==
    /\ pipeline = "launch" /\ pc = "filter"
    /\ idx > Len(Candidates)
    /\ IF go_launches = <<>>
       THEN /\ Saved(<<>>)
            /\ UNCHANGED go_launches
       ELSE IF hfToken
       THEN /\ pc' = "enhance"
            /\ UNCHANGED <<go_launches, outfile, writes, retval>>
       ELSE /\ go_launches' = with_empty_summaries(go_launches)
            /\ Saved(with_empty_summaries(go_launches))
    /\ UNCHANGED <<pipeline, hfToken, run, existing, items, procs, processed,
                   idx, posted, fetched>>
    /\ UNCHANGED <<sem>>
    /\ UNCHANGED summVars
    /\ UNCHANGED <<chunker, ipfs>>
    /\ UNCHANGED launches_data

Enhancing == pc \in {"enhance", "enhance_prior"}

\* enhance_all_launches_with_ai, lines 143-166: the next launch without an
\* ai_summary gets one from generate_summary
LaunchSummarize ==
    /\ pipeline = "launch" /\ Enhancing
    /\ \E k \in 1..Len(go_launches) :
          /\ NeedsAi(go_launches[k])
          /\ \A m \in 1..(k - 1) : ~NeedsAi(go_launches[m])
          /\ \E o \in BackendAnswers :
                go_launches' = [go_launches EXCEPT
                                  ![k].ai_summary = kept_summary(generate_summary(o))]
          /\ posted' = posted \cup {go_launches[k].id}
    /\ UNCHANGED <<pipeline, hfToken, run, pc, outfile, existing, items, procs,
                   processed, idx, fetched, writes, retval>>
    /\ UNCHANGED <<sem>>
    /\ UNCHANGED summVars
    /\ UNCHANGED <<chunker, ipfs>>
    /\ UNCHANGED launches_data

\* enhance_all_launches_with_ai returned; the list is saved
LaunchSave ==
    /\ pipeline = "launch" /\ Enhancing
    /\ \A k \in 1..Len(go_launches) : ~NeedsAi(go_launches[k])
    /\ Saved(go_launches)
    /\ UNCHANGED <<pipeline, hfToken, run, existing, items, procs, processed,
                   idx, go_launches, posted, fetched>>
    /\ UNCHANGED <<sem>>
    /\ UNCHANGED summVars
    /\ UNCHANGED <<chunker, ipfs>>
    /\ UNCHANGED launches_data

LaunchNext ==
    \/ LaunchBegin
    \/ LaunchListFail
    \/ LaunchListOk
    \/ LaunchReuse
    \/ LaunchDetail
    \/ LaunchFiltered
    \/ LaunchSummarize
    \/ LaunchSave

InitLaunch ==
    /\ IdleCall
    /\ chunker = NoChunker
    /\ sem = MAX_CONCURRENT_REQUESTS
    /\ pipeline = "launch" /\ hfToken \in BOOLEAN /\ run = 0 /\ pc = "idle"
    /\ outfile = NoFile
    /\ existing = <<>> /\ items = <<>> /\ procs = <<>> /\ processed = <<>>
    /\ idx = 0 /\ go_launches = <<>> /\ posted = {} /\ fetched = {}
    /\ writes = 0 /\ retval = "none" /\ launches_data = "none"
    /\ ipfs = NoIpfs

SpecLaunch == InitLaunch /\ [][LaunchNext]_vars

(***************************************************************************)
(* SpecPartition: one run of the launch pipeline over any existing file,   *)
(* also one whose launches lack their ai_summary or hold null for it, to   *)
(* exercise the reuse decision of filter_and_enhance_launches on every     *)
(* kind of prior entry.  Launches 1..3 are Go and have a url; the existing *)
(* file holds launch 1, launch 2, both or none.                            *)
(***************************************************************************)
PartitionIds == {1, 2, 3}
SX == <<"x">>

PriorEntry(id, ai) == [Launch(id, 1, Str(URL), TRUE) EXCEPT !.ai_summary = ai]

RECURSIVE prior_files(_)
prior_files(n) ==
    IF n = 0 THEN { <<>> }
    ELSE LET rest == prior_files(n - 1)
         IN  rest \cup
             { Append(f, PriorEntry(n, ai)) :
                 f \in rest, ai \in {Missing, PyNone, EmptyStr, Str(SX)} }

PartitionLists ==
    LET e(id) == ListEntry(id, "Go", Str(URL), 1)
    IN  { <<e(a)>> : a \in PartitionIds }
        \cup { l \in { <<e(a), e(b)>> : a \in PartitionIds, b \in PartitionIds } :
                   l[1].id # l[2].id }
        \cup { l \in { <<e(a), e(b), e(c)>> :
                         a \in PartitionIds, b \in PartitionIds, c \in PartitionIds } :
                   Cardinality({l[1].id, l[2].id, l[3].id}) = 3 }

InitPartition ==
    /\ IdleCall
    /\ chunker = NoChunker
    /\ sem = MAX_CONCURRENT_REQUESTS
    /\ pipeline = "launch" /\ hfToken = TRUE /\ run = 0 /\ pc = "idle"
    /\ outfile \in { IF f = <<>> THEN NoFile ELSE File(f) : f \in prior_files(2) }
    /\ existing = <<>> /\ items = <<>> /\ procs = <<>> /\ processed = <<>>
    /\ idx = 0 /\ go_launches = <<>> /\ posted = {} /\ fetched = {}
    /\ writes = 0 /\ retval = "none" /\ launches_data = "none"
    /\ ipfs = NoIpfs

PartitionBegin == run = 0 /\ LaunchBegin

PartitionListOk == LaunchListOkFrom(PartitionLists)

NextPartition ==
    \/ PartitionBegin
    \/ LaunchListFail
    \/ PartitionListOk
    \/ LaunchReuse
    \/ LaunchDetail
    \/ LaunchFiltered
    \/ LaunchSummarize
    \/ LaunchSave

SpecPartition == InitPartition /\ [][NextPartition]_vars

(***************************************************************************)
(* SpecPrior: the same run over any existing file, with HF_TOKEN set or    *)
(* not.                                                                    *)
(***************************************************************************)
InitPrior ==
    /\ IdleCall
    /\ chunker = NoChunker
    /\ sem = MAX_CONCURRENT_REQUESTS
    /\ pipeline = "launch" /\ hfToken \in BOOLEAN /\ run = 0 /\ pc = "idle"
    /\ outfile \in { IF f = <<>> THEN NoFile ELSE File(f) : f \in prior_files(2) }
    /\ existing = <<>> /\ items = <<>> /\ procs = <<>> /\ processed = <<>>
    /\ idx = 0 /\ go_launches = <<>> /\ posted = {} /\ fetched = {}
    /\ writes = 0 /\ retval = "none" /\ launches_data = "none"
    /\ ipfs = NoIpfs

SpecPrior == InitPrior /\ [][NextPartition]_vars

(***************************************************************************)
(* SpecIpfs: IPFSStorageManager.upload_all_files, run any number of times  *)
(* from no records file. ipfs.disk is the records file, ipfs.records the   *)
(* dict loaded from it, ipfs.latest_cids and ipfs.upload_results the       *)
(* locals of the run, ipfs.i the index into files_to_upload; ipfs.last is  *)
(* the CID of the latest upload of each file type that succeeded, kept for *)
(* the properties. Reading and writing the records file never fail here.   *)
(***************************************************************************)
MaxCid == 2
\* runs are followed while the records list can take two more entries
MaxRecords == 4

Cids == 1..MaxCid

\* what upload_file_and_record gives: a record entry with a CID, or None
\* (file not found, the POST failed or raised, no CID in the answer)
UploadResults == Cids \cup {NoCid}

IpfsFrame ==
    /\ UNCHANGED <<sem>>
    /\ UNCHANGED summVars
    /\ UNCHANGED pipeVars
    /\ UNCHANGED chunker

InitIpfs ==
    /\ IdleCall
    /\ IdlePipeline
    /\ chunker = NoChunker
    /\ sem = MAX_CONCURRENT_REQUESTS

\* lines 333-346: load_records and the locals
IpfsBegin ==
    /\ ipfs.pc = "idle"
    /\ Len(ipfs.disk.records) + 2 <= MaxRecords
    /\ ipfs' = [ipfs EXCEPT !.pc = "loop", !.records = ipfs.disk,
                            !.latest_cids = NoCids, !.i = 1,
                            !.upload_results = 0, !.retval = "none"]
    /\ IpfsFrame

\* the stats counter of a file type after one more upload
Counted(stats, t) ==
    IF t = "space_news"
    THEN [stats EXCEPT !.total_uploads = @ + 1, !.space_news_uploads = @ + 1]
    ELSE [stats EXCEPT !.total_uploads = @ + 1, !.upcoming_events_uploads = @ + 1]

\* lines 348-358: one iteration of the loop over files_to_upload
IpfsUpload ==
    /\ ipfs.pc = "loop" /\ ipfs.i <= Len(FileTypes)
    /\ \E cid \in UploadResults :
          LET t == FileTypes[ipfs.i]
          IN  ipfs' =
                IF cid = NoCid THEN [ipfs EXCEPT !.i = @ + 1]
                ELSE [ipfs EXCEPT
                        !.i = @ + 1,
                        !.records.records = Append(@, [file_type |-> t, cid |-> cid]),
                        !.records.stats = Counted(@, t),
                        !.latest_cids[t] = cid,
                        !.upload_results = @ + 1,
                        !.last[t] = cid]
    /\ IpfsFrame

\* lines 360-362: nothing was uploaded, return False before any save
IpfsNothingUploaded ==
    /\ ipfs.pc = "loop" /\ ipfs.i > Len(FileTypes)
    /\ ipfs.upload_results = 0
    /\ ipfs' = [ipfs EXCEPT !.pc = "idle", !.retval = "False"]
    /\ IpfsFrame

\* lines 364-368: records["latest_cids"] = latest_cids; save_records
IpfsSave ==
    /\ ipfs.pc = "loop" /\ ipfs.i > Len(FileTypes)
    /\ ipfs.upload_results > 0
    /\ LET r == [ipfs.records EXCEPT !.latest_cids = ipfs.latest_cids]
       IN  ipfs' = [ipfs EXCEPT !.pc = "publish", !.records = r, !.disk = r]
    /\ IpfsFrame

\* lines 370-394: the records file is uploaded and its CID published; the
\* records are saved again only when both succeeded
IpfsPublish ==
    /\ ipfs.pc = "publish"
    /\ \E records_cid \in UploadResults, ipns_success \in BOOLEAN :
          ipfs' =
            IF records_cid = NoCid
            THEN [ipfs EXCEPT !.pc = "idle", !.retval = "False"]
            ELSE IF ipns_success
            THEN LET r == [ipfs.records EXCEPT !.ipns_info = records_cid]
                 IN  [ipfs EXCEPT !.pc = "idle", !.retval = "True",
                                  !.records = r, !.disk = r]
            ELSE [ipfs EXCEPT !.pc = "idle", !.retval = "True"]
    /\ IpfsFrame

NextIpfs ==
    \/ IpfsBegin
    \/ IpfsUpload
    \/ IpfsNothingUploaded
    \/ IpfsSave
    \/ IpfsPublish

SpecIpfs == InitIpfs /\ [][NextIpfs]_vars

(***************************************************************************)
(* Spec: either pipeline, run any number of times from an empty disk.      *)
(***************************************************************************)
Init == InitNews \/ InitLaunch

Next == NewsNext \/ LaunchNext

Spec == Init /\ [][Next]_vars

(***************************************************************************)
(* Claims about the summarization client (checked under SpecSumm).         *)
(***************************************************************************)
AllRetryable == \A k \in 1..Len(hist) : hist[k] \in {429, 500, 502, 503}

\* C2: a summarize call of either client always returns a string, whatever
\* the backend answered: the result of a finished call is never None.
C2_AlwaysReturnsString ==
    call.pc = "done" => IsStr(call.result)

\* agent.hf_summarize_chunk with retries = 1 got one 200 answer and returned
\* None
C2_Witness ==
    /\ call.client = "agent" /\ call.retries = 1 /\ call.pc = "done"
    /\ hist = <<200>> /\ posts = 1 /\ call.result = PyNone

\* C3: while the backend answers every attempt with 429/500/502/503, a call
\* with retries = R has slept 2^k seconds after its k-th failed attempt for
\* every k < R and not after the R-th; it ends after exactly R POSTs and R
\* answers, returning the empty string.
C3_RetryableBackoff ==
    AllRetryable =>
        /\ Len(sleeps) = Min(Len(hist), call.retries - 1)
        /\ \A k \in 1..Len(sleeps) : sleeps[k] = 2 ^ k
        /\ \A k \in 1..(Len(sleeps) - 1) : sleeps[k] < sleeps[k + 1]
        /\ posts <= call.retries
        /\ (call.pc = "done") <=> (Len(hist) = call.retries)
        /\ call.pc = "done" => posts = call.retries /\ call.result = EmptyStr

C3_Witness ==
    /\ call.pc = "done" /\ call.retries = 3 /\ Len(hist) = 3 /\ AllRetryable
    /\ sleeps = <<2, 4>>

\* C4: a non-200 status outside {429, 500, 502, 503} ends the call at once:
\* it is the last answer the call ever gets, no POST follows it, no sleep
\* follows it, and the call has returned the empty string.
C4_FatalStatusEndsCall ==
    \A k \in 1..Len(hist) :
        hist[k] \notin {0, 200, 429, 500, 502, 503} =>
            /\ k = Len(hist)
            /\ posts = k
            /\ Len(sleeps) < k
            /\ call.pc = "done"
            /\ call.result = EmptyStr

C4_Witness ==
    /\ call.retries = 3 /\ hist = <<500, 404>> /\ call.pc = "done"
    /\ posts = 2 /\ sleeps = <<2>>

(***************************************************************************)
(* Claims about the news pipeline (checked under SpecNews).                *)
(***************************************************************************)
InFlightCalls ==
    UNION { { <<i, j>> : j \in { k \in 1..Len(procs[i].calls) :
                                    procs[i].calls[k].pc = "inflight" } } :
            i \in 1..Len(procs) }

ReadyCalls ==
    UNION { { <<i, j>> : j \in { k \in 1..Len(procs[i].calls) :
                                    procs[i].calls[k].pc = "ready" } } :
            i \in 1..Len(procs) }

\* C1: in every state of a news run at most MAX_CONCURRENT_REQUESTS POSTs to
\* the inference backend are in flight, chunk and condensation calls of all
\* records together.
C1_GateBound ==
    pipeline = "news" => Cardinality(InFlightCalls) <= MAX_CONCURRENT_REQUESTS

\* the gate is full and a third call waits for a slot
C1_Witness ==
    /\ pipeline = "news"
    /\ Cardinality(InFlightCalls) = MAX_CONCURRENT_REQUESTS
    /\ sem = 0
    /\ ReadyCalls # {}

\* C7: the snapshot the news pipeline writes is sorted by descending
\* published_at: each record's timestamp is at least its successor's.
C7_NewsSortedDescending ==
    (pipeline = "news" /\ outfile.exists) =>
        \A k \in 1..(Len(outfile.data) - 1) :
            outfile.data[k].published_at >= outfile.data[k + 1].published_at

\* the upstream list and the completion order are both ascending, and the
\* snapshot is the completion order reversed
C7_Witness ==
    /\ pipeline = "news" /\ pc = "done"
    /\ Len(items) = 2 /\ items[1].published_at < items[2].published_at
    /\ Len(processed) = 2
    /\ processed[1].published_at < processed[2].published_at
    /\ outfile.data = <<processed[2], processed[1]>>

\* the enrichment the claims expect of a failure path: the summary field,
\* or "" when the record has none
SummaryOrEmpty(item) ==
    IF item.summary.tag = "missing" THEN EmptyStr ELSE item.summary

\* C9: process_item attaches the record's summary field (or "" when it has
\* none) on every failure path: no url, no article text, and every chunk
\* summary empty.
C9_FailurePathsFallBack ==
    \A i \in 1..Len(procs) :
        LET p == procs[i]
            failed == \/ p.path \in {"no_url", "no_text"}
                      \/ p.path = "summarized" /\ p.combined = <<>>
        IN  (p.pc = "done" /\ failed) =>
                p.item.detailed_news = SummaryOrEmpty(p.item)

\* a record with a summary field whose chunk summaries were all empty ends
\* with the empty string as its enrichment
C9_Witness ==
    \E i \in 1..Len(procs) :
        /\ procs[i].pc = "done" /\ procs[i].path = "summarized"
        /\ procs[i].combined = <<>>
        /\ procs[i].item.summary = Str(SUMMARY)
        /\ procs[i].item.detailed_news = EmptyStr
        /\ procs[i].item.id \in posted

\* C10: a record without a url gets its summary field (or "") as enrichment,
\* and neither an article GET nor an inference POST is ever sent for it.
C10_NoUrlNoRequests ==
    \A i \in 1..Len(procs) :
        procs[i].item.url.tag # "str" =>
            /\ procs[i].item.id \notin posted
            /\ procs[i].item.id \notin fetched
            /\ procs[i].pc \in {"init", "done"}
            /\ procs[i].pc = "done" =>
                  procs[i].item.detailed_news = SummaryOrEmpty(procs[i].item)

\* a record without url finished with its summary while its sibling's
\* requests were going out
C10_Witness ==
    \E i \in 1..Len(procs) :
        /\ procs[i].item.url.tag # "str"
        /\ procs[i].pc = "done"
        /\ procs[i].item.detailed_news = Str(SUMMARY)
        /\ posted # {}
        /\ fetched # {}

(***************************************************************************)
(* Claims about the launch pipeline.                                       *)
(***************************************************************************)
IsGoWithUrl(l) == l.status = "Go" /\ l.url.tag = "str"
GoWithUrl == SelectSeq(items, IsGoWithUrl)
Ids(seq) == [k \in 1..Len(seq) |-> seq[k].id]

\* C5 (under SpecPartition): a fresh Go launch is reused if and only if the
\* existing file holds an entry of its id whose ai_summary is a string, the
\* empty string included; every other one is processed (its detail is
\* fetched and its record built without ai_summary).
C5_ReuseIffPriorHasSummary ==
    (pipeline = "launch" /\ pc = "filter") =>
        \A k \in 1..(idx - 1) :
            LET c == GoWithUrl[k]
                hits == { m \in 1..Len(existing) :
                            /\ existing[m].id = c.id
                            /\ existing[m].ai_summary.tag = "str" }
            IN  IF hits # {}
                THEN /\ go_launches[k] \in { existing[m] : m \in hits }
                     /\ c.id \notin fetched
                ELSE /\ go_launches[k].id = c.id
                     /\ go_launches[k].ai_summary = Missing
                     /\ c.id \in fetched

\* prior {1: "x", 2: ""} and fresh [1, 2, 3]: 1 and 2 reused, 3 processed
C5_Witness ==
    /\ pipeline = "launch" /\ pc = "filter" /\ idx = 4
    /\ existing = <<PriorEntry(1, Str(SX)), PriorEntry(2, EmptyStr)>>
    /\ Ids(items) = <<1, 2, 3>>
    /\ go_launches[1] = existing[1] /\ go_launches[2] = existing[2]
    /\ go_launches[3].ai_summary = Missing
    /\ fetched = {3}

RECURSIVE concat(_)
concat(seqs) == IF seqs = <<>> THEN <<>> ELSE Head(seqs) \o concat(Tail(seqs))

Spaces(n) == [k \in 1..n |-> " "]

\* c is t without its leading and trailing spaces
IsTrimOf(c, t) ==
    /\ c # <<>> => c[1] # " " /\ c[Len(c)] # " "
    /\ \E a \in 0..Len(t) : \E b \in 0..Len(t) :
          t = Spaces(a) \o c \o Spaces(b)

NonSpaces(t) == SelectSeq(t, LAMBDA ch : ch # " ")

\* the cursor before iteration k
CutBefore(k) == IF k = 1 THEN 0 ELSE chunker.cuts[k - 1]

Returned == chunker.pc = "done"
Looped == Returned /\ chunker.cuts # <<>>

\* C12 as stated: the chunks, concatenated in order, are the trimmed input.
C12_ConcatReproducesText ==
    (Returned /\ chunker.chunk_size_chars >= 1) =>
        concat(chunker.chunks) = strip(chunker.input)

\* C12 as amended: the cuts split the trimmed input into consecutive slices,
\* nothing left out and nothing twice, and each chunk is its slice without
\* the slice's leading and trailing spaces; so the chunks, concatenated,
\* hold every non-space character of the input once and in order.
C12_ChunksAreTrimmedSlices ==
    (Returned /\ chunker.chunk_size_chars >= 1) =>
        /\ IsTrimOf(chunker.text, chunker.input)
        /\ NonSpaces(concat(chunker.chunks)) = NonSpaces(chunker.input)
        /\ chunker.cuts # <<>> =>
              /\ Len(chunker.chunks) = Len(chunker.cuts)
              /\ chunker.cuts[Len(chunker.cuts)] = Len(chunker.text)
              /\ \A k \in 1..Len(chunker.cuts) :
                    /\ CutBefore(k) < chunker.cuts[k]
                    /\ IsTrimOf(chunker.chunks[k],
                                SubSeq(chunker.text, CutBefore(k) + 1,
                                       chunker.cuts[k]))

\* a cut fell on a space, which the chunks then lack
C12_Witness ==
    /\ Looped /\ chunker.chunk_size_chars = 5
    /\ chunker.input = <<"a", "a", "a", ".", " ", "a">>
    /\ chunker.chunks = << <<"a", "a", "a", ".">>, <<"a">> >>

\* the 0-based places of ". " in the look-ahead slice of iteration k
PeriodsAhead(k) ==
    LET ahead == SubSeq(chunker.text, CutBefore(k) + 1,
                        Min(CutBefore(k) + chunker.chunk_size_chars,
                            Len(chunker.text)))
    IN  { q \in 0..(Len(ahead) - 2) : ahead[q + 1] = "." /\ ahead[q + 2] = " " }

\* C13: every cut but the final one is right after the last ". " of the
\* look-ahead slice when that ". " lies past half of max_chars, and exactly
\* max_chars after the previous cursor otherwise; no chunk is longer than
\* max_chars.
C13_CutsAtPeriodOrMaxChars ==
    (chunker.pc \in {"loop", "done"} /\ chunker.chunk_size_chars >= 1) =>
        /\ \A k \in 1..Len(chunker.cuts) :
              chunker.cuts[k] < Len(chunker.text) =>
                  LET late == { q \in PeriodsAhead(k) :
                                  2 * q > chunker.chunk_size_chars }
                  IN  IF late # {}
                      THEN \E q \in late :
                              /\ \A r \in PeriodsAhead(k) : r <= q
                              /\ chunker.cuts[k] = CutBefore(k) + q + 1
                      ELSE chunker.cuts[k] =
                              CutBefore(k) + chunker.chunk_size_chars
        /\ \A k \in 1..Len(chunker.chunks) :
              Len(chunker.chunks[k]) <= chunker.chunk_size_chars

\* "aaa. a" at max_chars 5: the one cut before the end is after the sentence
C13_Witness ==
    /\ Looped /\ chunker.chunk_size_chars = 2 + 3
    /\ chunker.text = <<"a", "a", "a", ".", " ", "a">>
    /\ chunker.cuts = <<4, 6>>

\* C14: a text no longer than max_chars comes back as the one-element
\* sequence holding the text trimmed.
C14_ShortTextIsOneChunk ==
    (Returned /\ Len(chunker.input) <= chunker.chunk_size_chars) =>
        /\ Len(chunker.chunks) = 1
        /\ IsTrimOf(chunker.chunks[1], chunker.input)

C14_Witness ==
    /\ Returned /\ chunker.chunk_size_chars = 4
    /\ chunker.input = <<" ", "a", ".", " ">>
    /\ chunker.chunks = << <<"a", ".">> >>

\* C15: for a text that is not empty after trimming and max_chars >= 1,
\* every chunk is a non-empty string.
C15_ChunksNonEmpty ==
    (Returned /\ chunker.chunk_size_chars >= 1 /\ strip(chunker.input) # <<>>) =>
        \A k \in 1..Len(chunker.chunks) : chunker.chunks[k] # <<>>

\* "a b" cut every character: the space alone is a slice, and its chunk is ""
C15_Witness ==
    /\ Returned /\ chunker.chunk_size_chars = 1
    /\ chunker.input = <<"a", " ", "a">>
    /\ chunker.chunks = << <<"a">>, <<>>, <<"a">> >>

\* C16: the cursor strictly advances at every iteration of the loop, for
\* every chunk size.
C16_CursorAdvances ==
    [][(chunker.pc = "loop" /\ chunker'.pc = "loop" /\ chunker' # chunker)
          => chunker'.start > chunker.start]_vars

\* with chunk size 0 the loop has appended "" again and again, its cursor
\* still at 0
C16_Witness ==
    /\ chunker.pc = "loop" /\ chunker.chunk_size_chars = 0
    /\ chunker.text = <<"a">> /\ chunker.start = 0
    /\ Len(chunker.chunks) = MaxChunks

(***************************************************************************)
(* More claims about the summarization client (checked under SpecSumm).    *)
(***************************************************************************)
\* the text the three shapes stand for: summary_text, else generated_text,
\* of the first object or of the object itself; the string itself; else ""
NormalisedText(b) ==
    IF b.shape \in {"listdict", "dict"}
    THEN IF b.summary_text.tag = "str" /\ b.summary_text.s # <<>>
         THEN b.summary_text.s
         ELSE IF b.generated_text.tag = "str" THEN b.generated_text.s
         ELSE <<>>
    ELSE IF b.shape = "str" THEN b.text
    ELSE <<>>

EndedOn200 ==
    /\ call.pc = "done" /\ hist # <<>> /\ hist[Len(hist)] = 200
    /\ out.shape \notin {"none", "invalid"}

\* C17: a call of either client that ends on a 200 answer returns the
\* answer normalised: summary_text or else generated_text of a list's first
\* object or of an object, a bare string as it is, and "" for every other
\* body.
C17_ResponseNormalised ==
    EndedOn200 => call.result = Str(NormalisedText(out))

\* agent.hf_summarize_chunk ended on a 200 answer whose body is a number,
\* with None
C17_Witness ==
    /\ EndedOn200 /\ call.client = "agent" /\ out.shape = "number"
    /\ call.result = PyNone

\* C18 as stated: after a POST that timed out or failed in transport the
\* call sends no further POST.
C18_TimeoutNotRetried ==
    \A k \in 1..Len(hist) : hist[k] = 0 => posts = k

\* C18 as amended: a POST that times out or fails in transport is a failed
\* attempt like a retryable status: on attempt k < retries the call sleeps
\* 2^k seconds and goes on to the next attempt; on the last attempt it
\* returns "".
C18_ExceptionIsRetried ==
    \A k \in 1..Len(hist) :
        hist[k] = 0 =>
            IF k < call.retries
            THEN /\ Len(hist) = k =>
                       /\ call.pc \in {"sleep", "ready", "inflight"}
                       /\ sleeps # <<>> /\ sleeps[Len(sleeps)] = 2 ^ k
                       /\ call.pc = "inflight" => posts = k + 1
                 /\ call.pc = "done" => Len(hist) > k /\ posts > k
            ELSE /\ Len(hist) = k /\ posts = k
                 /\ call.pc = "done" /\ call.result = EmptyStr

\* three timeouts in a row: three POSTs, sleeps of 2 and 4 seconds, then ""
C18_Witness ==
    /\ call.retries = 3 /\ hist = <<0, 0, 0>> /\ posts = 3
    /\ sleeps = <<2, 4>> /\ call.pc = "done" /\ call.result = EmptyStr

(***************************************************************************)
(* More claims about the news pipeline (checked under SpecNews).           *)
(***************************************************************************)
SleepingCalls ==
    UNION { { <<i, j>> : j \in { k \in 1..Len(procs[i].calls) :
                                    procs[i].calls[k].pc = "sleep" } } :
            i \in 1..Len(procs) }

\* C19: the slots taken from the gate are exactly the POSTs in flight: a
\* call takes one when it sends its POST and gives it back however the
\* attempt ends, holds none while it sleeps in backoff, and when every call
\* has returned all MAX_CONCURRENT_REQUESTS slots are free.
C19_SlotHeldWhileInFlight ==
    pipeline = "news" =>
        /\ sem = MAX_CONCURRENT_REQUESTS - Cardinality(InFlightCalls)
        /\ (InFlightCalls = {} => sem = MAX_CONCURRENT_REQUESTS)

\* a call sleeps in backoff while a sibling's POST is in flight: one slot
\* is taken, not two
C19_Witness ==
    /\ pipeline = "news"
    /\ SleepingCalls # {}
    /\ Cardinality(InFlightCalls) = 1
    /\ sem = MAX_CONCURRENT_REQUESTS - 1


(***************************************************************************)
(* C11, C20: one record through the news pipeline (SpecRecord).            *)
(***************************************************************************)
\* the strings of q with one space between each two
RECURSIVE SpaceJoined(_)
SpaceJoined(q) ==
    IF q = <<>> THEN <<>>
    ELSE IF Len(q) = 1 THEN q[1]
    ELSE q[1] \o <<" ">> \o SpaceJoined(Tail(q))

\* the non-empty summaries among cs, in the order of cs
NonEmptySummaries(cs) ==
    LET kept == SelectSeq(cs, LAMBDA v : v.tag = "str" /\ Len(v.s) > 0)
    IN  [k \in 1..Len(kept) |-> kept[k].s]

PastGather(p) == p.chunk_summaries # <<>>

\* C11: once the chunk calls of a record have all returned, in whatever
\* order, its combined summary is the single-space join of its non-empty
\* chunk summaries in chunk order ("A.", "", "B." give "A. B."), the record
\* goes on to its final summary and the run does not crash.
C11_CombinedIsOrderedJoin ==
    /\ pc # "crashed"
    /\ \A i \in 1..Len(procs) :
          PastGather(procs[i]) =>
              /\ procs[i].combined =
                     SpaceJoined(NonEmptySummaries(procs[i].chunk_summaries))
              /\ procs[i].chunk_summaries = <<Str(SA), EmptyStr, Str(SB)>>
                     => procs[i].combined = <<"A", ".", " ", "B", ".">>
              /\ procs[i].pc \in {"condense", "done"}
              /\ procs[i].pc = "done" => procs[i].path = "summarized"

\* the third chunk's call returned first and the second one's failed:
\* "A.", "", "B." were combined to "A. B.", which became the record's text
C11_Witness ==
    \E i \in 1..Len(procs) :
        /\ procs[i].pc = "done"
        /\ procs[i].finished = <<3, 2, 1>>
        /\ procs[i].chunk_summaries = <<Str(SA), EmptyStr, Str(SB)>>
        /\ procs[i].combined = <<"A", ".", " ", "B", ".">>
        /\ procs[i].item.detailed_news = Str(<<"A", ".", " ", "B", ".">>)

\* C20: a record whose article GET answered with a status other than 200
\* has no inference call made for it and ends with its own summary field
\* as its text.
C20_Non200IsFetchFailure ==
    \A i \in 1..Len(procs) :
        procs[i].status \notin {0, 200} =>
            /\ procs[i].item.id \notin posted
            /\ procs[i].pc = "done" =>
                   /\ procs[i].path = "no_text"
                   /\ procs[i].item.detailed_news = SummaryOrEmpty(procs[i].item)

\* the article GET answered 404 with a page of text: the text was chunked,
\* inference calls were made and their summaries became the record's text
C20_Witness ==
    \E i \in 1..Len(procs) :
        /\ procs[i].status = 404
        /\ procs[i].pc = "done"
        /\ procs[i].path = "summarized"
        /\ procs[i].item.id \in posted
        /\ procs[i].item.summary = Str(SUMMARY)
        /\ procs[i].item.detailed_news # Str(SUMMARY)


(***************************************************************************)
(* C21..C23: the list fetch fails.                                         *)
(***************************************************************************)
\* the ids of the records of a snapshot that have no ai_summary field
LackingSummary(snapshot) ==
    { snapshot[k].id : k \in { m \in 1..Len(snapshot) :
                                   snapshot[m].ai_summary.tag = "missing" } }

\* record b is record a, with an ai_summary added if a had none
SameRecord(a, b) ==
    IF a.ai_summary.tag = "missing"
    THEN [b EXCEPT !.ai_summary = Missing] = a
    ELSE b = a

FellBack == pipeline = "launch" /\ launches_data = "failed" /\ existing # <<>>

C22_NewsFallsBackToPrior ==
    (pipeline = "news" /\ launches_data = "failed" /\ existing # <<>>) =>
        pc \in {"enrich", "done"}

\* fetch_json raised in a run that had loaded a prior snapshot: main died
\* with the exception, nothing was sent and the snapshot is as it was
C22_Witness ==
    /\ pipeline = "news" /\ launches_data = "failed" /\ existing # <<>>
    /\ pc = "crashed"
    /\ writes = 0 /\ posted = {} /\ fetched = {} /\ procs = <<>>
    /\ outfile = File(existing)


\* C23: a run whose list fetch failed and that has no prior snapshot fails
\* (the launch pipeline's main returns False) without a snapshot write, a
\* detail or article fetch, or an inference request.
C23_NoPriorListFailureFails ==
    (launches_data = "failed" /\ existing = <<>>) =>
        /\ pipeline = "launch" => (pc = "failed" /\ retval = "False")
        /\ pipeline = "news" => pc = "crashed"
        /\ writes = 0 /\ fetched = {} /\ posted = {}
        /\ outfile.data = <<>>
        /\ go_launches = <<>> /\ procs = <<>>

\* the launch pipeline's list fetch failed with no output file on disk:
\* main returned False and there is still no file
C23_Witness ==
    /\ pipeline = "launch" /\ launches_data = "failed" /\ existing = <<>>
    /\ pc = "failed" /\ retval = "False"
    /\ outfile = NoFile /\ writes = 0


(***************************************************************************)
(* C24: HF_TOKEN is not set.                                               *)
(***************************************************************************)
RunStarted == run > 0

C25_OneRecordPerGoLaunch ==
    (pipeline = "launch" /\ launches_data = "ok") =>
        LET n == IF pc = "filter" THEN idx - 1 ELSE Len(GoWithUrl)
        IN  /\ n <= Len(GoWithUrl)
            /\ Len(go_launches) = n
            /\ \A k \in 1..n :
                  /\ go_launches[k].id = GoWithUrl[k].id
                  /\ go_launches[k].id \notin fetched =>
                        /\ HasId(existing, GoWithUrl[k].id)
                        /\ pc = "filter" =>
                              go_launches[k] = Lookup(existing, GoWithUrl[k].id)
                  /\ go_launches[k].id \in fetched =>
                        go_launches[k].url = GoWithUrl[k].url

\* two Go launches with a url: the first was reused, the detail fetch of
\* the second gave nothing usable; both are in the result, in list order
C25_Witness ==
    /\ pipeline = "launch" /\ launches_data = "ok" /\ pc = "enhance"
    /\ Len(items) = 2 /\ Len(GoWithUrl) = 2
    /\ HasId(existing, items[1].id) /\ items[1].id \notin fetched
    /\ items[2].id \in fetched
    /\ Len(go_launches) = 2
    /\ go_launches[1] = Lookup(existing, items[1].id)
    /\ go_launches[2].id = items[2].id /\ ~go_launches[2].detailed


(***************************************************************************)
(* C26: an exception in one record's path of the news pipeline.            *)
(***************************************************************************)
SomeRaised == \E i \in 1..Len(procs) : procs[i].pc = "raised"

\* C26: when the processing of one news record raises an unexpected
\* exception, the run goes on with the sibling records and persists a
\* snapshot with one record per item of the fresh list.
C26_RecordFailureIsIsolated ==
    (pipeline = "news" /\ SomeRaised) =>
        /\ pc \in {"enrich", "done"}
        /\ pc = "done" => Len(outfile.data) = Len(items)

\* the parser rejected the page of one of two items: the exception left
\* main, the sibling item was left unprocessed and nothing was written
C26_Witness ==
    /\ pipeline = "news" /\ pc = "crashed" /\ writes = 0
    /\ Len(procs) = 2
    /\ \E i, j \in 1..2 :
          /\ procs[i].pc = "raised"
          /\ procs[j].pc \in {"init", "fetch", "gather", "condense"}
    /\ Len(processed) = 0
    /\ outfile = NoFile


(***************************************************************************)
(* C27: the snapshot after a run whose list fetch succeeded.               *)
(***************************************************************************)
IdSet(seq) == { seq[k].id : k \in 1..Len(seq) }
\* the records of the fresh list the pipeline selects
Selected == IF pipeline = "news" THEN items ELSE GoWithUrl

\* C27: after a run whose list fetch succeeded the snapshot holds one
\* record per selected record of the fresh list and nothing else; no prior
\* record whose id is absent from the fresh list is left in it.
C27_SnapshotIsFreshSelection ==
    (launches_data = "ok" /\ RunEnded) =>
        /\ Len(outfile.data) = Len(Selected)
        /\ IdSet(outfile.data) = IdSet(Selected)

\* a news run over a fresh list holding an item of the prior snapshot ended
\* at the task loop: the snapshot on disk is still the prior one, with a
\* record whose id is not in the fresh list
C27_Witness ==
    /\ pipeline = "news" /\ launches_data = "ok" /\ pc = "crashed"
    /\ procs = <<>> /\ writes = 0
    /\ \E k \in 1..Len(items) : HasId(existing, items[k].id)
    /\ outfile = File(existing)
    /\ \E k \in 1..Len(outfile.data) : outfile.data[k].id \notin IdSet(items)


(***************************************************************************)
(* C28..C30: reuse.                                                        *)
(***************************************************************************)
\* the partition's decision for a selected record of the fresh list: its id
\* is in the prior snapshot and, in the launch pipeline, the prior record's
\* ai_summary is a string
IsReusable(r) ==
    \E m \in 1..Len(existing) :
        /\ existing[m].id = r.id
        /\ pipeline = "launch" => existing[m].ai_summary.tag = "str"

\* the selected records routed to processing
Routed == SelectSeq(Selected, LAMBDA r : ~IsReusable(r))

\* C28: no article or detail fetch and no inference request is sent for a
\* record the partition classifies as reusable, and the records enriched in
\* a run are at most those routed to processing.
C28_ReusedCostsNoWork ==
    launches_data = "ok" =>
        /\ \A k \in 1..Len(Selected) :
              IsReusable(Selected[k]) =>
                  (Selected[k].id \notin fetched /\ Selected[k].id \notin posted)
        /\ fetched \subseteq IdSet(Routed)
        /\ posted \subseteq IdSet(Routed)
        /\ Cardinality(posted) <= Len(Routed)

\* a launch run over two Go launches, the first in the prior snapshot: only
\* the second had its detail fetched and an inference request sent
C28_Witness ==
    /\ pipeline = "launch" /\ launches_data = "ok" /\ pc = "done"
    /\ Len(Selected) = 2
    /\ IsReusable(Selected[1]) /\ ~IsReusable(Selected[2])
    /\ fetched = {Selected[2].id} /\ posted = {Selected[2].id}
    /\ outfile.data[1] = Lookup(existing, Selected[1].id)


\* the prior records whose ai_summary is the empty string
GivenUp == { m \in 1..Len(existing) : existing[m].ai_summary = EmptyStr }

\* C29: in no run of the launch pipeline is an inference request sent for a
\* launch that the prior snapshot holds with an empty-string ai_summary;
\* when the run persists the launch again, its ai_summary is still empty.
C29_EmptySummaryNeverRetried ==
    pipeline = "launch" =>
        \A m \in GivenUp :
            /\ existing[m].id \notin posted
            /\ (pc = "done" /\ HasId(outfile.data, existing[m].id)) =>
                   Lookup(outfile.data, existing[m].id).ai_summary = EmptyStr

\* a later run with HF_TOKEN set, over a fresh list holding a launch whose
\* summary failed before: it was reused as it is, while its sibling was
\* summarized
C29_Witness ==
    /\ pipeline = "launch" /\ hfToken /\ pc = "done" /\ launches_data = "ok"
    /\ \E m \in GivenUp :
          /\ existing[m].id \in IdSet(GoWithUrl)
          /\ existing[m].id \notin posted
          /\ Lookup(outfile.data, existing[m].id) = existing[m]
    /\ \E k \in 1..Len(outfile.data) :
          /\ outfile.data[k].id \in posted
          /\ Truthy(outfile.data[k].ai_summary)


\* the fresh list selects the records of the prior snapshot, as it does in
\* a run that follows a completed run over the same upstream list
SameAsPrior ==
    /\ launches_data = "ok"
    /\ Len(Selected) = Len(existing)
    /\ IdSet(Selected) = IdSet(existing)
    /\ pipeline = "launch" => Ids(Selected) = Ids(existing)
    /\ pipeline = "news" =>
          \A k \in 1..Len(items) :
              LET old == Lookup(existing, items[k].id)
              IN  [old EXCEPT !.detailed_news = items[k].detailed_news] = items[k]

Records(seq) == { seq[k] : k \in 1..Len(seq) }

\* C30: a run over the same upstream list as the completed run whose
\* snapshot it starts from sends no article or detail fetch and no
\* inference request, completes, and persists the records of that snapshot
\* with their enrichment values.
C30_RepeatRunIsIdempotent ==
    SameAsPrior =>
        /\ fetched = {} /\ posted = {}
        /\ pc \notin {"crashed", "failed"}
        /\ pc = "done" => (writes = 1 /\ Records(outfile.data) = Records(existing))

\* the news pipeline run again over the list of its last completed run:
\* every item is found in the prior snapshot and the run ends at the task
\* loop with nothing persisted
C30_Witness ==
    /\ pipeline = "news" /\ SameAsPrior /\ Len(existing) = 2
    /\ pc = "crashed" /\ writes = 0 /\ procs = <<>>
    /\ fetched = {} /\ posted = {}


(***************************************************************************)
(* C31: the order of the persisted news records.                           *)
(***************************************************************************)
\* C31: the sequence the news pipeline persists is fixed by the fresh list
\* (and the answers each record got), whatever order the records' tasks
\* complete in: it is the one the completion order of the list itself gives.
C31_OrderIndependentOfCompletion ==
    (pipeline = "news" /\ pc = "done") =>
        Ids(outfile.data) = Ids(sorted_desc(items, "published_at"))

\* two items of equal published_at, both taking the no-url path, so that
\* their records do not depend on any answer: the second task completed
\* first and the snapshot has the two in the reverse of the list's order
C31_Witness ==
    /\ pipeline = "news" /\ pc = "done" /\ Len(items) = 2
    /\ items[1].published_at = items[2].published_at
    /\ items[1].url = Missing /\ items[2].url = Missing
    /\ Ids(processed) = <<items[2].id, items[1].id>>
    /\ Ids(outfile.data) = <<items[2].id, items[1].id>>


(***************************************************************************)
(* C32: the reuse rule of the news pipeline.                               *)
(***************************************************************************)
\* the items of the fresh list whose id is in the prior snapshot with
\* another updated_at
Updated ==
    { k \in 1..Len(items) :
        /\ HasId(existing, items[k].id)
        /\ Lookup(existing, items[k].id).updated_at # items[k].updated_at }

\* C32: an item whose updated_at differs from the stored one is not taken
\* from the existing file: a process_item task is made for it, which
\* fetches and summarizes it again.
C32_UpdatedItemReprocessed ==
    (pipeline = "news" /\ launches_data = "ok") =>
        \A k \in Updated :
            /\ Len(procs) = Len(items)
            /\ procs[k].item.id = items[k].id
            /\ pc = "done" => items[k].id \in fetched \/ items[k].url = Missing

\* item 1 is listed with a newer updated_at than the stored one: no task
\* was made for it, nothing was fetched and the run ended at the task loop
C32_Witness ==
    /\ pipeline = "news" /\ launches_data = "ok"
    /\ Len(items) = 1 /\ Updated = {1}
    /\ Lookup(existing, items[1].id).updated_at < items[1].updated_at
    /\ procs = <<>> /\ fetched = {} /\ posted = {}
    /\ pc = "crashed" /\ outfile = File(existing)


(***************************************************************************)
(* C33, C34: condensation and the sanity check of process_item.            *)
(***************************************************************************)
Summarized(p) == p.pc = "done" /\ p.path = "summarized"

\* C33: a record gets one condensation call if its combined summary is
\* longer than CHUNK_SIZE and none otherwise; the call is made only when
\* every chunk call of the record has returned; the record's text differs
\* from the combined summary only if the condensation returned a non-empty
\* text, which is then the record's text.
C33_CondensationAfterBarrier ==
    \A i \in 1..Len(procs) :
        LET p == procs[i]
        IN  /\ p.pc = "gather" => (p.condensed = <<>> /\ p.chunk_summaries = <<>>)
            /\ p.pc = "condense" =>
                  /\ Len(p.combined) > CHUNK_SIZE
                  /\ Len(p.calls) = 1 /\ p.condensed = <<>>
                  /\ p.chunk_summaries # <<>>
                  /\ Records(p.finished) = 1..Len(p.chunk_summaries)
            /\ Summarized(p) =>
                  /\ Records(p.finished) = 1..Len(p.chunk_summaries)
                  /\ Len(p.condensed) = IF Len(p.combined) > CHUNK_SIZE THEN 1 ELSE 0
                  /\ p.item.detailed_news # Str(p.combined) =>
                        /\ Len(p.condensed) = 1
                        /\ Truthy(p.condensed[1])
                        /\ p.item.detailed_news = p.condensed[1]
                  /\ (p.condensed # <<>> /\ ~Truthy(p.condensed[1])) =>
                        p.item.detailed_news = Str(p.combined)

\* a record of two chunks whose combined summary was longer than
\* CHUNK_SIZE: the second chunk's call returned first, then the first, then
\* one condensation call whose non-empty result became the record's text
C33_Witness ==
    \E i \in 1..Len(procs) :
        /\ Summarized(procs[i])
        /\ procs[i].finished = <<2, 1>>
        /\ Len(procs[i].combined) > CHUNK_SIZE
        /\ Len(procs[i].condensed) = 1 /\ Truthy(procs[i].condensed[1])
        /\ procs[i].item.detailed_news = procs[i].condensed[1]
        /\ procs[i].item.detailed_news # Str(procs[i].combined)


\* the number of words of t: the places where a run of non-space
\* characters starts
Words(t) ==
    Cardinality({ k \in 1..Len(t) : t[k] # " " /\ (k = 1 \/ t[k - 1] = " ") })

\* the final summary of lines 126-130, before the check of lines 132-134
BeforeCheck(p) ==
    IF p.condensed # <<>> /\ Truthy(p.condensed[1]) THEN p.condensed[1].s
    ELSE p.combined

\* C34: when the final summary has fewer words than half of
\* TARGET_SUMMARY_WORDS and the combined summary is non-empty, the record
\* gets the combined summary; it gets a condensed summary only when that has
\* at least half of TARGET_SUMMARY_WORDS words.
C34_ShortSummaryFallsBackToCombined ==
    \A i \in 1..Len(procs) :
        LET p == procs[i]
        IN  Summarized(p) =>
              /\ (2 * Words(BeforeCheck(p)) < TARGET_SUMMARY_WORDS /\ p.combined # <<>>)
                    => p.item.detailed_news = Str(p.combined)
              /\ 2 * Words(BeforeCheck(p)) >= TARGET_SUMMARY_WORDS
                    => p.item.detailed_news = Str(BeforeCheck(p))
              /\ p.item.detailed_news # Str(p.combined) =>
                    /\ p.item.detailed_news = p.condensed[1]
                    /\ 2 * Words(p.condensed[1].s) >= TARGET_SUMMARY_WORDS

\* the condensation of a combined summary of four words returned a summary
\* of one word, fewer than half of TARGET_SUMMARY_WORDS: the record got the
\* combined summary
C34_Witness ==
    \E i \in 1..Len(procs) :
        /\ Summarized(procs[i])
        /\ Len(procs[i].condensed) = 1 /\ Truthy(procs[i].condensed[1])
        /\ Words(procs[i].condensed[1].s) = 1
        /\ Words(procs[i].combined) = 4
        /\ 2 * 1 < TARGET_SUMMARY_WORDS
        /\ procs[i].item.detailed_news = Str(procs[i].combined)
        /\ procs[i].condensed[1] # Str(procs[i].combined)


\* C35: a 200 answer ends the summarize call, whatever its body: it is the
\* last answer the call gets, no POST is sent after it and no backoff sleep
\* follows it.
C35_Status200EndsCall ==
    \A k \in 1..Len(hist) :
        hist[k] = 200 =>
            /\ k = Len(hist)
            /\ posts = k
            /\ Len(sleeps) < k
            /\ call.pc = "done"

\* hf_client.call_hf_api with retries = 2 got a 200 answer whose body is not
\* JSON, slept 2 seconds and sent a second POST; agent.hf_summarize_chunk
\* does the same, and sends a second POST at once after a 200 answer whose
\* JSON body is [], [1], 1 or null
C35_Witness ==
    /\ call.client = "hf_client" /\ call.retries = 2
    /\ hist = <<200, 200>> /\ posts = 2 /\ sleeps = <<2>> /\ call.pc = "done"
    /\ out.shape = "listdict"


\* the stage a run is in: the list fetch, the partition, the enrichment of
\* the records routed to processing, the write; a run that stopped early
StageOf(p) ==
    CASE p = "idle" -> 0
      [] p = "list" -> 1
      [] p = "filter" -> 2
      [] p \in {"enrich", "enhance", "enhance_prior"} -> 3
      [] p = "done" -> 4
      [] OTHER -> 5

\* every record of the list has its enrichment field
Enriched(data) ==
    \A k \in 1..Len(data) :
        IF pipeline = "news" THEN data[k].detailed_news # Missing
        ELSE data[k].ai_summary # Missing

\* C36: a run never goes back to an earlier stage; it writes the snapshot at
\* most once, as its last step, when the enrichment of every record routed
\* to processing has ended: no task and no summarize call is still running
\* and every record written has its enrichment.
C36_StagesInOrderOneWrite ==
    [][ /\ ~RunEnded => StageOf(pc') >= StageOf(pc)
        /\ RunEnded => pc' \in {"list", "aborted"}
        /\ writes' <= 1
        /\ (outfile' # outfile \/ writes' > writes) =>
              /\ writes = 0 /\ writes' = 1
              /\ StageOf(pc) \in {1, 2, 3} /\ pc' = "done"
              \* written straight after the list fetch: nothing was routed
              \* to processing
              /\ pc = "list" =>
                    /\ items' = <<>>
                    /\ \A k \in 1..Len(existing) :
                          pipeline = "launch" => ~NeedsAi(existing[k])
              /\ Enriched(outfile'.data)
              /\ pipeline = "news" =>
                    /\ Len(procs') = Len(items')
                    /\ \A i \in 1..Len(procs) :
                          /\ procs[i].pc = "done"
                          /\ \A j \in 1..Len(procs[i].calls) :
                                procs[i].calls[j].pc = "done"
                    /\ IdSet(outfile'.data) = IdSet(items)
              /\ pipeline = "launch" =>
                    /\ pc = "filter" => idx > Len(Candidates)
                    /\ outfile'.data = go_launches'
      ]_vars

\* a news run of two records wrote its snapshot once, after both tasks had
\* ended, one of them with a summary from the backend
C36_Witness ==
    /\ pipeline = "news" /\ pc = "done" /\ writes = 1
    /\ Len(procs) = 2 /\ Len(outfile.data) = 2
    /\ \A i \in 1..2 : procs[i].pc = "done"
    /\ \E i \in 1..2 : Summarized(procs[i])


\* C37: a news run whose list fetch succeeded eventually writes its
\* snapshot: every summarize call and every process_item task returns and
\* no task waits for a gate slot for ever.
C37_FanOutCompletes ==
    (pipeline = "news" /\ launches_data = "ok") ~> (pc = "done")

\* a run ended in its fan-out: the parser rejected one article's page, the
\* exception left main, and the other task is left in its gather with a
\* POST in flight that holds a gate slot
C37_Witness ==
    /\ pipeline = "news" /\ launches_data = "ok" /\ pc = "crashed"
    /\ writes = 0
    /\ \E i \in 1..Len(procs) : procs[i].pc = "raised"
    /\ \E i \in 1..Len(procs) :
          /\ procs[i].pc = "gather"
          /\ \E j \in 1..Len(procs[i].calls) : procs[i].calls[j].pc = "inflight"
    /\ sem < MAX_CONCURRENT_REQUESTS


\* the record of the prior snapshot with the id of r, if it has a summary
\* that makes r reusable
PriorOf(r) == Lookup(existing, r.id)

\* C38: a launch that is reused is emitted, and persisted at the end of the
\* run, as the record of the prior snapshot, equal to it in every field,
\* whatever the fresh list entry says; the next run starts from that record
\* again.
C38_ReusedRecordUnchanged ==
    (pipeline = "launch" /\ launches_data = "ok") =>
        /\ \A k \in 1..Len(go_launches) :
              IsReusable(go_launches[k]) => go_launches[k] = PriorOf(go_launches[k])
        /\ pc = "done" =>
              \A k \in 1..Len(outfile.data) :
                  IsReusable(outfile.data[k]) =>
                      outfile.data[k] = PriorOf(outfile.data[k])

\* a run reused a launch whose fresh list entry has another net timestamp
\* than the prior record, and persisted the prior record with its old net
C38_Witness ==
    /\ pipeline = "launch" /\ launches_data = "ok" /\ pc = "done" /\ writes = 1
    /\ \E k \in 1..Len(outfile.data) : \E m \in 1..Len(items) :
          /\ items[m].id = outfile.data[k].id
          /\ IsReusable(outfile.data[k])
          /\ outfile.data[k].id \notin fetched
          /\ items[m].net # outfile.data[k].net
          /\ outfile.data[k] = PriorOf(outfile.data[k])


\* C39: the two clients do the same on every answer: whatever answer the
\* backend gives to the POST of attempt k of a call with retries R,
\* agent.hf_summarize_chunk and hf_client.call_hf_api both return, with the
\* same value, or both sleep, for the same time, before attempt k + 1; so
\* they send the same POSTs, sleep the same and return the same value on
\* every sequence of answers.
C39_ClientsEquivalent ==
    call.pc = "inflight" =>
        \A o \in Outcomes :
            hf_summarize_chunk_attempt(call.attempt, call.retries, o)
                = call_hf_api_attempt(call.attempt, call.retries, o)

\* agent.hf_summarize_chunk with retries = 2 got the 200 answer [] twice: it
\* sent two POSTs and returned None, where hf_client.call_hf_api returns ""
\* after the first answer
C39_Witness ==
    /\ call.client = "agent" /\ call.retries = 2 /\ call.pc = "done"
    /\ hist = <<200, 200>> /\ out.shape = "emptylist"
    /\ posts = 2 /\ sleeps = <<>> /\ call.result = PyNone
    /\ call_hf_api_attempt(1, 2, Outcome("resp", 200, out)) = Return(EmptyStr)


(***************************************************************************)
(* Claims about the IPFS records (checked under SpecIpfs).                 *)
(***************************************************************************)
\* C40: whenever no run of upload_all_files is in progress, latest_cids in
\* the records file holds, for space_news and for upcoming_events, the CID
\* of the latest upload of that file type that succeeded; a run in which
\* one of the two uploads fails leaves the other type's entry.
C40_LatestCidsTrackUploads ==
    ipfs.pc = "idle" =>
        \A k \in 1..Len(FileTypes) :
            ipfs.disk.latest_cids[FileTypes[k]] = ipfs.last[FileTypes[k]]

\* after a run that uploaded both files, a run uploaded space_news alone:
\* the records file holds both uploads of the first run in its records list
\* but latest_cids has no upcoming_events entry any more
C40_Witness ==
    /\ ipfs.pc = "idle" /\ ipfs.retval = "True"
    /\ Len(ipfs.disk.records) = 3
    /\ ipfs.disk.records[2] = [file_type |-> "upcoming_events", cid |-> 1]
    /\ ipfs.disk.records[3].file_type = "space_news"
    /\ ipfs.last["upcoming_events"] = 1
    /\ ipfs.disk.latest_cids["upcoming_events"] = NoCid
    /\ ipfs.disk.latest_cids["space_news"] = ipfs.disk.records[3].cid

====
